---- MODULE Spec2Model ----
(***************************************************************************)
(* A model of libnvwal's epoch-durable append pipeline: writer ingest,     *)
(* flusher, fsyncer, metadata store (MDS) and log cursor.                  *)
(*                                                                         *)
(* Assertions of the C code do not stop the model: the assert()s that fail *)
(* in a step are recorded in the variable failed of the state it leads to, *)
(* and execution continues as in an NDEBUG                                 *)
(* build; the behaviour of a debug build is the prefix up to the first     *)
(* recorded failure, followed by Crash.                                    *)
(***************************************************************************)
EXTENDS Integers, Sequences, FiniteSets, TLC

(***************************************************************************)
(* Configuration (struct NvwalConfig) and exploration bounds.              *)
(***************************************************************************)
writer_count_ == 2            \* config_.writer_count_
writer_buffer_size_ == 4      \* config_.writer_buffer_size_ (B)
segment_size_ == 2            \* config_.segment_size_ (S)
segment_count_ == 2           \* nv_quota_ / segment_size_ (N)
EpochsPerPage == 2            \* max_epochs_per_page(mds) (K)
MaxEpoch == 3                 \* highest epoch a client uses
MaxBytes == 3                 \* total bytes the writers append (Spec)
MaxBytesStop == 2             \* the same, in SpecStop
MaxBytesCursor == 4           \* the same, in SpecCursor
MaxEpochCursor == 2           \* highest epoch a writer tags in SpecCursor
MaxBytesFair == 2             \* the same, in FairSpec
MaxBytesMds == 2              \* the same, in SpecMds
MaxBytesRing == 4             \* the same, in SpecRing
MaxBytesReader == 3           \* the same, in SpecReader
MaxEpochReader == 2           \* highest epoch a writer tags in SpecReader
MaxBytesRecover == 2          \* total bytes the writer appends in SpecRecover
MaxBytesFairStop == 4         \* the same, in FairStopSpec
MaxEpochFairStop == 1         \* highest epoch a writer tags in FairStopSpec
MaxBytesFairIo == 2           \* total bytes the writer appends in FairIoSpec
MaxUserMetadata == 1          \* user_metadata_0_ and user_metadata_1_ range over 0 .. MaxUserMetadata
MaxBytesFairRing == 4         \* total bytes the writer appends in FairRingSpec
MaxEpochFairRing == 1         \* highest epoch the writer tags in FairRingSpec
MaxEpochFrames == 5           \* highest epoch of SpecFrames, one byte in each
MaxResumingEpoch == 2         \* config.resuming_epoch_ ranges over 0 .. MaxResumingEpoch
MaxEpochResume == 4           \* highest epoch of SpecResume
MaxBytesMdsRead == 2           \* total bytes the writer appends in SpecMdsRead
MaxEpochMdsRead == 4           \* highest epoch written and read in SpecMdsRead

kNvwalEpochFrameCount == 5
kNvwalInvalidEpoch == 0
kNvwalInvalidDsid == 0
kNvwalInvalidPage == 0
kNvwalCursorEpochPrefetches == 2
kNvwalMdsReadPrefetch == 2

WriterIds == 0 .. (writer_count_ - 1)
FrameIds == 0 .. (kNvwalEpochFrameCount - 1)
SlotIds == 0 .. (segment_count_ - 1)
Epochs == 1 .. MaxEpoch

VARIABLES
  frames,            \* writer -> frame index -> NvwalWriterEpochFrame
  active_frame,      \* writer -> active_frame_
  oldest_frame,      \* writer -> oldest_frame_
  last_tail_offset,  \* writer -> last_tail_offset_
  wbuf,              \* writer -> offset -> byte (the writer's circular buffer)
  wlog,              \* writer -> sequence of the epoch tags of the bytes it appended
  stable_epoch,      \* wal->stable_epoch_
  durable_epoch,     \* wal->durable_epoch_ (volatile)
  cb,                \* the control block on NVDIMM
  segments,          \* slot -> NvwalLogSegment (flags and counters)
  nvdata,            \* slot -> offset -> byte (the mapped NV segment)
  persisted,         \* slot -> offsets whose latest store has been persisted
  disk,              \* dsid -> disk segment file
  fl,                \* the flusher thread
  fs,                \* the fsyncer thread
  mds,               \* the metadata store: NV write buffer and latest_epoch_
  pagefile,          \* the MDS page file: sequence of pages
  cursor,            \* one log cursor
  rb,                \* a call of mds_rollback_to_epoch in progress
  reader,            \* a reader thread stepping an MdsEpochIterator
  failed             \* the assertions that failed in the step to this state

vars == << frames, active_frame, oldest_frame, last_tail_offset, wbuf, wlog,
           stable_epoch, durable_epoch, cb, segments, nvdata, persisted, disk,
           fl, fs, mds, pagefile, cursor, rb, reader, failed >>

writerVars == << frames, active_frame, oldest_frame, last_tail_offset, wbuf, wlog >>
segVars == << segments, nvdata, persisted >>
mdsVars == << mds, pagefile >>

(***************************************************************************)
(* Values.                                                                 *)
(***************************************************************************)
NoByte == << >>
Byte(w, k) == << w, k >>          \* the k-th byte writer w appended
ByteEpoch(b) == wlog[b[1]][b[2]]  \* the epoch tag the client gave that byte

ZeroFrame == [log_epoch_ |-> 0, head_offset_ |-> 0, tail_offset_ |-> 0]

NoMeta == [epoch_id_ |-> 0, from_seg_id_ |-> 0, from_offset_ |-> 0,
           to_seg_id_ |-> 0, to_off_ |-> 0]

Min(a, b) == IF a <= b THEN a ELSE b
Max(a, b) == IF a >= b THEN a ELSE b

(***************************************************************************)
(* Epoch arithmetic (nvwal_util.h).  The model's epochs stay far below the *)
(* 64-bit wrap, so modular order coincides with the order of the naturals. *)
(***************************************************************************)
nvwal_increment_epoch(e) == e + 1
nvwal_is_epoch_after(a, b) == a > b
nvwal_is_epoch_equal_or_after(a, b) == a >= b

(***************************************************************************)
(* Writers (nvwal_api.c).                                                  *)
(***************************************************************************)
wrap_writer_epoch_frame(i) ==
  IF i < kNvwalEpochFrameCount THEN i ELSE i - kNvwalEpochFrameCount

wrap_writer_offset(offset) ==
  IF offset < writer_buffer_size_ THEN offset ELSE offset - writer_buffer_size_

calculate_writer_offset_distance(left_offset, right_offset) ==
  IF left_offset = right_offset THEN 0
  ELSE IF left_offset < right_offset THEN right_offset - left_offset
  ELSE right_offset + writer_buffer_size_ - left_offset

nvwal_has_enough_writer_space(w) ==
  LET frame == frames[w][oldest_frame[w]]
      consumed_bytes == calculate_writer_offset_distance(
                          frame.head_offset_, last_tail_offset[w])
  IN consumed_bytes * 2 <= writer_buffer_size_

\* The assertions of assure_writer_active_frame that fail for log_epoch.
AssureFrameFailures(w, log_epoch) ==
  LET frame == frames[w][active_frame[w]]
      next == wrap_writer_epoch_frame(active_frame[w] + 1)
  IN IF frame.log_epoch_ = log_epoch THEN {}
     ELSE IF frame.log_epoch_ = kNvwalInvalidEpoch
       THEN (IF active_frame[w] # oldest_frame[w]
               THEN {"assure:active_frame_==oldest_frame_"} ELSE {})
       ELSE (IF next = oldest_frame[w]
               THEN {"assure:active_frame_!=oldest_frame_"} ELSE {})
            \cup (IF frames[w][next].log_epoch_ # kNvwalInvalidEpoch
               THEN {"assure:log_epoch_==kNvwalInvalidEpoch"} ELSE {})

\* The value of writer->active_frame_ after assure_writer_active_frame.
AssureActiveFrame(w, log_epoch) ==
  LET frame == frames[w][active_frame[w]]
  IN IF frame.log_epoch_ = log_epoch \/ frame.log_epoch_ = kNvwalInvalidEpoch
       THEN active_frame[w]
       ELSE wrap_writer_epoch_frame(active_frame[w] + 1)

\* A variant of AssureFrames that, having moved on from a frame of an older
\* epoch, publishes the new frame with the epoch of the frame it left.
AssureFrames_StaleEpoch(w, log_epoch) ==
  LET a == AssureActiveFrame(w, log_epoch)
      left == frames[w][active_frame[w]].log_epoch_
  IN IF left = log_epoch THEN frames[w]
     ELSE [frames[w] EXCEPT ![a] =
             [log_epoch_ |-> IF left = kNvwalInvalidEpoch THEN log_epoch ELSE left,
              head_offset_ |-> last_tail_offset[w],
              tail_offset_ |-> last_tail_offset[w]]]

\* The frames of writer w after assure_writer_active_frame.
AssureFrames(w, log_epoch) ==
  LET a == AssureActiveFrame(w, log_epoch)
  IN IF frames[w][active_frame[w]].log_epoch_ = log_epoch THEN frames[w]
     ELSE [frames[w] EXCEPT ![a] = [log_epoch_ |-> log_epoch,
                                    head_offset_ |-> last_tail_offset[w],
                                    tail_offset_ |-> last_tail_offset[w]]]

\* nvwal_circular_memcpy: circular_src[offset .. offset + j], one byte.
CircularByte(w, offset, j) == wbuf[w][(offset + j) % writer_buffer_size_]

LastEpochOf(w) == IF Len(wlog[w]) = 0 THEN 0 ELSE wlog[w][Len(wlog[w])]
TotalBytes == LET RECURSIVE Sum(_)
                  Sum(S) == IF S = {} THEN 0
                            ELSE LET x == CHOOSE y \in S : TRUE
                                 IN Len(wlog[x]) + Sum(S \ {x})
              IN Sum(WriterIds)

\* The client of writer w respects the documented contract: it asks
\* nvwal_has_enough_writer_space first, tags with non-decreasing epochs, and
\* writes an epoch only after stable_epoch_ and up to durable_epoch_ + 2.
ClientMayWrite(w, n, log_epoch) ==
  /\ nvwal_has_enough_writer_space(w)
  /\ n * 2 < writer_buffer_size_
  /\ log_epoch >= LastEpochOf(w)
  /\ nvwal_is_epoch_after(log_epoch, stable_epoch)
  /\ log_epoch <= durable_epoch + 2

\* The assertions of nvwal_on_wal_write that fail, evaluated on the frame
\* assure_writer_active_frame left active.
OnWriteFailures(w, n, log_epoch) ==
  LET frame == AssureFrames(w, log_epoch)[AssureActiveFrame(w, log_epoch)]
  IN (IF frame.log_epoch_ # log_epoch THEN {"on_write:log_epoch_"} ELSE {})
     \cup (IF frame.tail_offset_ # last_tail_offset[w]
             THEN {"on_write:tail_offset_==last_tail_offset_"} ELSE {})
     \cup (IF ~(calculate_writer_offset_distance(frame.head_offset_, frame.tail_offset_)
                 + n < writer_buffer_size_)
             THEN {"on_write:enough_space"} ELSE {})
     \cup (IF ~(frame.tail_offset_ + n < writer_buffer_size_ * 2)
             THEN {"wrap_writer_offset:range"} ELSE {})

\* The client copies n bytes to its buffer at last_tail_offset_ and calls
\* nvwal_on_wal_write(writer, n, log_epoch).
nvwal_on_wal_write(w, n, log_epoch) ==
  LET a == AssureActiveFrame(w, log_epoch)
      fr == AssureFrames(w, log_epoch)
      new_tail == wrap_writer_offset(fr[a].tail_offset_ + n)
      k0 == Len(wlog[w])
  IN /\ ClientMayWrite(w, n, log_epoch)
     /\ wbuf' = [wbuf EXCEPT ![w] =
          [o \in 0 .. (writer_buffer_size_ - 1) |->
             LET j == (o - last_tail_offset[w] + writer_buffer_size_) % writer_buffer_size_
             IN IF j < n THEN Byte(w, k0 + j + 1) ELSE wbuf[w][o]]]
     /\ wlog' = [wlog EXCEPT ![w] = @ \o [j \in 1 .. n |-> log_epoch]]
     /\ failed' = AssureFrameFailures(w, log_epoch)
                         \cup OnWriteFailures(w, n, log_epoch)
     /\ active_frame' = [active_frame EXCEPT ![w] = a]
     /\ last_tail_offset' = [last_tail_offset EXCEPT ![w] = new_tail]
     /\ frames' = [frames EXCEPT ![w] = [fr EXCEPT ![a].tail_offset_ = new_tail]]
     /\ UNCHANGED << oldest_frame, stable_epoch, durable_epoch, cb, segVars, disk,
                     fl, fs, mdsVars, cursor, rb, reader >>

\* The clients of the writers in ws append at most budget bytes in all.
OnWalWrite(ws, budget, max_epoch) ==
  \E w \in ws, n \in 1 .. budget, e \in 1 .. max_epoch :
    TotalBytes + n <= budget /\ nvwal_on_wal_write(w, n, e)

\* A client of writer w that appends one byte to each epoch: its k-th byte
\* is tagged with epoch k.
OneByteEachEpoch(w, max_epoch) ==
  \E e \in 1 .. max_epoch : TotalBytes = e - 1 /\ nvwal_on_wal_write(w, 1, e)

\* nvwal_advance_stable_epoch(wal, new_stable_epoch); calls that return at
\* the first test or whose compare-and-swap fails change nothing.
nvwal_advance_stable_epoch(new_stable_epoch) ==
  /\ nvwal_increment_epoch(durable_epoch) = new_stable_epoch
  /\ stable_epoch = durable_epoch
  /\ stable_epoch' = new_stable_epoch
  /\ UNCHANGED << writerVars, durable_epoch, cb, segVars, disk, fl, fs, mdsVars,
                  cursor, rb, reader >>
  /\ failed' = {}

AdvanceStableEpoch(max_epoch) == \E e \in 1 .. max_epoch : nvwal_advance_stable_epoch(e)

(***************************************************************************)
(* Flusher (nvwal_api.c).                                                  *)
(***************************************************************************)
flusher_get_segment_from_dsid(dsid) == (dsid - 1) % segment_count_
flusher_get_cur_segment == flusher_get_segment_from_dsid(fl.cur_dsid)

\* NVWAL_MIN(a - b, d) on uint64_t: a - b wraps modulo 2^64 when a < b, and
\* the wrapped value exceeds every distance d < 2^64 - b.
MinOfU64Diff(a, b, d) == IF a >= b THEN Min(a - b, d) ELSE d

\* flusher_main_loop, after flusher_copy_one_writer_to_nv returned 0 for
\* fl.cur_writer: the stop test between writers, the end of the for loop
\* and the decision to conclude the epoch.
\* The flusher back in nvwal_flusher_main: the locals of flusher_main_loop and
\* of its callees are gone.
Returned(f) == [f EXCEPT !.pc = "idle", !.cur_writer = 0, !.frame_index = 0,
                         !.target_epoch = 0, !.is_stable = FALSE,
                         !.new_meta = NoMeta, !.bufferp = FALSE]

\* A variant of AfterCopy whose test before flusher_conclude_stable_epoch
\* compares target_epoch and durable_epoch_ for equality.
AfterCopy_ConcludeWhenDurable(f) ==
  IF f.state # "stop_requested" /\ f.cur_writer + 1 < writer_count_
    THEN [f EXCEPT !.pc = "copy", !.cur_writer = @ + 1, !.frame_index = 0]
    ELSE IF f.is_stable /\ f.target_epoch = durable_epoch
      THEN [f EXCEPT !.pc = "conclude", !.cur_writer = 0, !.frame_index = 0]
      ELSE Returned(f)

\* The flusher after flusher_copy_one_writer_to_nv returned 0: the next
\* writer, or the end of the for loop of flusher_main_loop.
AfterCopy(f) ==
  IF f.state # "stop_requested" /\ f.cur_writer + 1 < writer_count_
    THEN [f EXCEPT !.pc = "copy", !.cur_writer = @ + 1, !.frame_index = 0]
    ELSE IF f.is_stable /\ f.target_epoch # durable_epoch
      THEN [f EXCEPT !.pc = "conclude", !.cur_writer = 0, !.frame_index = 0]
      ELSE Returned(f)

\* A thread that returns error_code from its main loop.
StoppedWith(f, error_code) == [f EXCEPT !.pc = "stopped", !.state = "stopped",
                                        !.error = error_code]

\* nvwal_flusher_main: the top of the while loop, then the prologue of
\* flusher_main_loop.
FlusherLoopTop ==
  /\ fl.pc = "idle"
  /\ fl' = IF fl.state = "stop_requested" THEN StoppedWith(fl, "OK")
           ELSE [fl EXCEPT !.pc = "copy", !.cur_writer = 0,
                   !.target_epoch = nvwal_increment_epoch(durable_epoch),
                   !.is_stable = (nvwal_increment_epoch(durable_epoch) = stable_epoch)]
  /\ UNCHANGED << writerVars, stable_epoch, durable_epoch, cb, segVars, disk, fs,
                  mdsVars, cursor, rb, reader >>
  /\ failed' = {}

\* The first loop of flusher_copy_one_writer_to_nv: the number of frames,
\* counted from oldest_frame_, passed over as older than target_epoch.  The
\* index oldest_frame_ + i is not wrapped; the scan is cut at the first index
\* outside the frame array.
RECURSIVE LowerBoundF(_, _, _)
LowerBoundF(w, target_epoch, i) ==
  IF i = kNvwalEpochFrameCount THEN i
  ELSE IF oldest_frame[w] + i >= kNvwalEpochFrameCount THEN i
  ELSE LET frame_epoch == frames[w][oldest_frame[w] + i].log_epoch_
       IN IF frame_epoch = kNvwalInvalidEpoch
             \/ nvwal_is_epoch_equal_or_after(frame_epoch, target_epoch)
            THEN i
            ELSE LowerBoundF(w, target_epoch, i + 1)

\* One pass of the while loop of flusher_copy_one_writer_to_nv on frame
\* frame_index of writer w, with bytes pending (distance > 0).
CopyPass(w, frame_index, fail0) ==
  LET frame == frames[w][frame_index]
      head == frame.head_offset_
      tail == frame.tail_offset_
      distance == calculate_writer_offset_distance(head, tail)
      slot == flusher_get_cur_segment
      cur_segment == segments[slot]
      wb == cur_segment.written_bytes_
      copied_bytes == MinOfU64Diff(wb, segment_size_, distance)
      written == {o \in 0 .. (segment_size_ - 1) : wb <= o /\ o < wb + copied_bytes}
      new_head == wrap_writer_offset(head + copied_bytes)
      retire == new_head = tail /\ fl.is_stable
      new_wb == wb + copied_bytes
      full == new_wb = segment_size_
      fails == fail0
        \cup (IF wb > segment_size_ THEN {"copy:written_bytes_<=segment_size"} ELSE {})
        \cup (IF new_wb > segment_size_ THEN {"copy:store_beyond_segment"} ELSE {})
        \cup (IF full /\ cur_segment.fsync_requested_ # 0
                THEN {"rotate:fsync_requested_==0"} ELSE {})
        \cup (IF full /\ cur_segment.fsync_error_ # "OK"
                THEN {"rotate:fsync_error_==0"} ELSE {})
        \cup (IF full /\ cur_segment.fsync_completed_ # 0
                THEN {"rotate:fsync_completed_==0"} ELSE {})
  IN /\ nvdata' = [nvdata EXCEPT ![slot] =
          [o \in 0 .. (segment_size_ - 1) |->
             IF o \in written THEN CircularByte(w, head, o - wb) ELSE nvdata[slot][o]]]
     /\ persisted' = [persisted EXCEPT ![slot] = @ \ written]
     /\ frames' = [frames EXCEPT ![w][frame_index] =
          IF retire THEN ZeroFrame ELSE [frame EXCEPT !.head_offset_ = new_head]]
     /\ oldest_frame' = IF retire
          THEN [oldest_frame EXCEPT ![w] = wrap_writer_epoch_frame(frame_index + 1)]
          ELSE oldest_frame
     /\ segments' = [segments EXCEPT ![slot].written_bytes_ = new_wb,
                                     ![slot].fsync_requested_ =
                                        IF full THEN 1 ELSE @]
     /\ fl' = IF full THEN [fl EXCEPT !.pc = "rot_wait", !.frame_index = frame_index]
              ELSE IF copied_bytes = distance THEN AfterCopy(fl)
              ELSE [fl EXCEPT !.pc = "copy_loop", !.frame_index = frame_index]
     /\ failed' = fails
     /\ UNCHANGED << active_frame, last_tail_offset, wbuf, wlog, stable_epoch,
                     durable_epoch, cb, disk, fs, mdsVars, cursor, rb, reader >>

\* flusher_copy_one_writer_to_nv returns 0 without copying.
CopyNothing(fails) ==
  /\ fl' = AfterCopy(fl)
  /\ failed' = fails
  /\ UNCHANGED << writerVars, stable_epoch, durable_epoch, cb, segVars, disk, fs,
                  mdsVars, cursor, rb, reader >>

\* flusher_copy_one_writer_to_nv(writer, target_epoch, is_stable_epoch) up to
\* the end of the first pass of its while loop.
flusher_copy_one_writer_to_nv ==
  /\ fl.pc = "copy"
  /\ LET w == fl.cur_writer
         lower_bound_f == LowerBoundF(w, fl.target_epoch, 0)
         frame_index == oldest_frame[w] + lower_bound_f
     IN IF lower_bound_f = kNvwalEpochFrameCount THEN CopyNothing({})
        ELSE IF frame_index >= kNvwalEpochFrameCount
          THEN CopyNothing({"copy:frame_index_out_of_range"})
        ELSE IF frames[w][frame_index].log_epoch_ = kNvwalInvalidEpoch
                \/ nvwal_is_epoch_after(frames[w][frame_index].log_epoch_, fl.target_epoch)
          THEN CopyNothing({})
        ELSE IF calculate_writer_offset_distance(frames[w][frame_index].head_offset_,
                                                 frames[w][frame_index].tail_offset_) = 0
          THEN CopyNothing({})
        ELSE CopyPass(w, frame_index, {})

\* A later pass of the while loop (after `continue`, or when fewer bytes than
\* pending were copied).
flusher_copy_next_pass ==
  /\ fl.pc = "copy_loop"
  /\ LET w == fl.cur_writer
         frame == frames[w][fl.frame_index]
     IN IF calculate_writer_offset_distance(frame.head_offset_, frame.tail_offset_) = 0
          THEN CopyNothing({})
          ELSE CopyPass(w, fl.frame_index, {})

\* flusher_move_onto_next_nv_segment: one turn of the first wait loop, on the
\* slot that next_dsid maps to.
flusher_wait_fsync_completed ==
  /\ fl.pc = "rot_wait"
  /\ LET new_segment == segments[flusher_get_segment_from_dsid(fl.cur_dsid + 1)]
         fails == IF new_segment.fsync_requested_ = 0
                    THEN {"rotate:new_segment.fsync_requested_"} ELSE {}
     IN IF new_segment.fsync_completed_ # 0
          THEN /\ fl' = [fl EXCEPT !.pc = "rot_pin"]
               /\ failed' = {}
          ELSE /\ failed' = fails
               /\ fl' = IF new_segment.fsync_error_ # "OK"
                          THEN StoppedWith(fl, new_segment.fsync_error_)
                          ELSE fl
  /\ UNCHANGED << writerVars, stable_epoch, durable_epoch, cb, segVars, disk, fs,
                  mdsVars, cursor, rb, reader >>

\* A variant of the second wait loop that goes on to the reset without the
\* compare-and-swap.
flusher_pin_for_recycle_NoSwap ==
  /\ fl.pc = "rot_pin"
  /\ fl' = [fl EXCEPT !.pc = "rot_reset"]
  /\ failed' = {}
  /\ UNCHANGED << writerVars, stable_epoch, durable_epoch, cb, segVars,
                  disk, fs, mdsVars, cursor, rb, reader >>

\* The second wait loop: compare-and-swap nv_reader_pins_ from 0 to -1.
flusher_pin_for_recycle ==
  /\ fl.pc = "rot_pin"
  /\ LET slot == flusher_get_segment_from_dsid(fl.cur_dsid + 1)
         pins == segments[slot].nv_reader_pins_
     IN IF pins = 0
          THEN /\ segments' = [segments EXCEPT ![slot].nv_reader_pins_ = -1]
               /\ fl' = [fl EXCEPT !.pc = "rot_reset"]
               /\ failed' = {}
          ELSE /\ failed' =
                    (IF pins > 0 THEN {} ELSE {"rotate:expected>0"})
               /\ UNCHANGED << segments, fl >>
  /\ UNCHANGED << writerVars, stable_epoch, durable_epoch, cb, nvdata, persisted,
                  disk, fs, mdsVars, cursor, rb, reader >>

\* "Ok, let's recycle": the slot takes next_dsid and its progress is reset.
flusher_recycle_segment ==
  /\ fl.pc = "rot_reset"
  /\ LET slot == flusher_get_segment_from_dsid(fl.cur_dsid + 1)
     IN /\ segments' = [segments EXCEPT ![slot].dsid_ = fl.cur_dsid + 1,
                                        ![slot].written_bytes_ = 0,
                                        ![slot].fsync_completed_ = 0,
                                        ![slot].fsync_error_ = "OK",
                                        ![slot].fsync_requested_ = 0]
        /\ failed' =
             (IF segments[slot].dsid_ > 0 THEN {} ELSE {"rotate:new_segment.dsid_>0"})
  /\ fl' = [fl EXCEPT !.pc = "rot_unpin"]
  /\ UNCHANGED << writerVars, stable_epoch, durable_epoch, cb, nvdata, persisted,
                  disk, fs, mdsVars, cursor, rb, reader >>

\* The pin is released and the flusher moves to next_dsid; the copy loop of
\* flusher_copy_one_writer_to_nv continues.
flusher_unpin_recycled ==
  /\ fl.pc = "rot_unpin"
  /\ LET slot == flusher_get_segment_from_dsid(fl.cur_dsid + 1)
     IN /\ segments' = [segments EXCEPT ![slot].nv_reader_pins_ = 0]
        /\ failed' =
             (IF segments[slot].nv_reader_pins_ = -1 THEN {}
              ELSE {"rotate:nv_reader_pins_==-1"})
  /\ fl' = [fl EXCEPT !.pc = "copy_loop", !.cur_dsid = @ + 1]
  /\ UNCHANGED << writerVars, stable_epoch, durable_epoch, cb, nvdata, persisted,
                  disk, fs, mdsVars, cursor, rb, reader >>

\* The offsets of segment dsid that the persist loop of
\* flusher_conclude_stable_epoch persists for the record new_meta.
PersistRange(new_meta, dsid) ==
  LET from_offset == IF dsid = new_meta.from_seg_id_ THEN new_meta.from_offset_ ELSE 0
      to_offset == IF dsid = new_meta.to_seg_id_ THEN new_meta.to_off_ ELSE segment_size_
  IN {o \in 0 .. (segment_size_ - 1) : from_offset <= o /\ o < to_offset}

\* The dsids the persist loop does not skip.
PersistDsids(new_meta) ==
  {dsid \in new_meta.from_seg_id_ .. new_meta.to_seg_id_ : dsid > cb.last_synced_dsid_}

\* flusher_conclude_stable_epoch up to the call of mds_write_epoch: compose
\* the record, then persist the epoch's ranges in the NV segments.
flusher_conclude_stable_epoch ==
  /\ fl.pc = "conclude"
  /\ LET cur_segment == segments[flusher_get_cur_segment]
         new_meta == [epoch_id_ |-> fl.target_epoch,
                      from_seg_id_ |-> fl.head_dsid,
                      from_offset_ |-> fl.head_offset,
                      to_seg_id_ |-> cur_segment.dsid_,
                      to_off_ |-> cur_segment.written_bytes_]
         dsids == PersistDsids(new_meta)
         fails ==
           (IF \E dsid \in dsids :
                 (IF dsid = new_meta.from_seg_id_ THEN new_meta.from_offset_ ELSE 0)
                   > (IF dsid = new_meta.to_seg_id_ THEN new_meta.to_off_ ELSE segment_size_)
              THEN {"conclude:from_offset<=to_offset"} ELSE {})
           \cup (IF \E dsid \in dsids :
                      segments[flusher_get_segment_from_dsid(dsid)].dsid_ # dsid
                   THEN {"conclude:segment.dsid_==dsid"} ELSE {})
     IN /\ persisted' = [slot \in SlotIds |-> persisted[slot] \cup
             UNION {PersistRange(new_meta, dsid) :
                      dsid \in {d \in dsids : flusher_get_segment_from_dsid(d) = slot}}]
        /\ fl' = [fl EXCEPT !.pc = "mds_alloc", !.new_meta = new_meta]
        /\ failed' = fails
  /\ UNCHANGED << writerVars, stable_epoch, durable_epoch, cb, segments, nvdata, disk,
                  fs, mdsVars, cursor, rb, reader >>

(***************************************************************************)
(* Metadata store (nvwal_mds.c).  There is one page file and one NV write  *)
(* buffer holding one page of EpochsPerPage records.                       *)
(***************************************************************************)
ZeroPage == [i \in 0 .. (EpochsPerPage - 1) |-> NoMeta]

max_epochs_per_page == EpochsPerPage

\* nvwal_impl_mds.h: epoch ids start at 1, pages are numbered from 1.
epoch_id_to_page_no(epoch_id) ==
  IF epoch_id = kNvwalInvalidEpoch THEN kNvwalInvalidPage
  ELSE (epoch_id - 1) \div max_epochs_per_page + 1

epoch_id_to_page_offset(epoch_id) == (epoch_id - 1) % max_epochs_per_page

mds_durable_epoch == cb.durable_epoch_
mds_paged_epoch == cb.paged_mds_epoch_

\* mds_io_append_page: write() of one page, then fsync.  The descriptor is
\* opened with O_APPEND, so the page lands at the end of the file; pos counts
\* the pages appended so far.
mds_io_append_page(file, page) ==
  [pages |-> Append(file.pages, page), pos |-> file.pos + 1]

\* A variant of mds_bufmgr_alloc_page that recycles the buffer for the next
\* page whether it is clean or dirty.
AllocPageResult_RecycleDirty(buffer, page_no) ==
  LET adopted == IF buffer.page_no_ = 0 THEN [buffer EXCEPT !.page_no_ = page_no]
                 ELSE buffer
  IN IF page_no = kNvwalInvalidPage
       THEN [ret |-> "EINVAL", buffer |-> buffer, bufferp |-> FALSE]
     ELSE IF page_no = adopted.page_no_
       THEN [ret |-> "OK", buffer |-> [adopted EXCEPT !.dirty_ = 1], bufferp |-> TRUE]
     ELSE IF page_no = adopted.page_no_ + 1
       THEN [ret |-> "OK", bufferp |-> TRUE,
             buffer |-> [adopted EXCEPT !.page_no_ = page_no, !.dirty_ = 1]]
     ELSE [ret |-> "OK", buffer |-> adopted, bufferp |-> FALSE]

\* mds_bufmgr_alloc_page(bufmgr, file, page_no): the error code returned,
\* the buffer afterwards, and whether the unreachable branch was taken.
AllocPageResult(buffer, page_no) ==
  LET adopted == IF buffer.page_no_ = 0 THEN [buffer EXCEPT !.page_no_ = page_no]
                 ELSE buffer
  IN IF page_no = kNvwalInvalidPage
       THEN [ret |-> "EINVAL", buffer |-> buffer, bufferp |-> FALSE]
     ELSE IF page_no = adopted.page_no_
       THEN [ret |-> "OK", buffer |-> [adopted EXCEPT !.dirty_ = 1], bufferp |-> TRUE]
     ELSE IF page_no = adopted.page_no_ + 1
       THEN IF adopted.dirty_ = 0
              THEN [ret |-> "OK", bufferp |-> TRUE,
                    buffer |-> [adopted EXCEPT !.page_no_ = page_no, !.dirty_ = 1]]
              ELSE [ret |-> "ENOBUFS", buffer |-> adopted, bufferp |-> FALSE]
     ELSE [ret |-> "OK", buffer |-> adopted, bufferp |-> FALSE]

\* After mds_bufmgr_alloc_page in mds_write_epoch.  When the call returned 0
\* without setting *bufferp, the record is stored through an uninitialized
\* pointer: the store is recorded in failed and the buffered page is kept.
AfterAlloc(r) ==
  /\ mds' = [mds EXCEPT !.buffer = r.buffer]
  /\ fl' = IF r.ret = "ENOBUFS" THEN [fl EXCEPT !.pc = "mds_writeback"]
           ELSE IF r.ret # "OK" THEN StoppedWith(fl, r.ret)
           ELSE [fl EXCEPT !.pc = "mds_record", !.bufferp = r.bufferp]
  /\ failed' =
       (IF r.ret = "OK" /\ ~r.bufferp THEN {"alloc_page:this shouldn't happen"} ELSE {})

\* mds_write_epoch: the first call of mds_bufmgr_alloc_page.
mds_write_epoch_alloc ==
  /\ fl.pc = "mds_alloc"
  /\ AfterAlloc(AllocPageResult(mds.buffer, epoch_id_to_page_no(fl.new_meta.epoch_id_)))
  /\ UNCHANGED << writerVars, stable_epoch, durable_epoch, cb, segVars, disk, fs,
                  pagefile, cursor, rb, reader >>

\* A variant of the loop of mds_bufmgr_writeback that leaves dirty_ set.
WritebackResult_StaysDirty(buffer, file) ==
  [buffer |-> buffer,
   file |-> IF buffer.dirty_ # 0 THEN mds_io_append_page(file, buffer.page) ELSE file]

\* The loop of mds_bufmgr_writeback on the one buffer: a dirty buffer is
\* appended to its page file and marked clean.
WritebackResult(buffer, file) ==
  [buffer |-> [buffer EXCEPT !.dirty_ = 0],
   file |-> IF buffer.dirty_ # 0 THEN mds_io_append_page(file, buffer.page) ELSE file]

\* mds_bufmgr_writeback in mds_write_epoch, after ENOBUFS.
mds_bufmgr_writeback ==
  /\ fl.pc = "mds_writeback"
  /\ pagefile' = WritebackResult(mds.buffer, pagefile).file
  /\ mds' = [mds EXCEPT !.buffer = WritebackResult(mds.buffer, pagefile).buffer]
  /\ fl' = [fl EXCEPT !.pc = "mds_paged"]
  /\ UNCHANGED << writerVars, stable_epoch, durable_epoch, cb, segVars, disk, fs,
                  cursor, rb, reader >>
  /\ failed' = {}

\* A variant of the step that records the epoch being written as paged.
mds_update_paged_epoch_ThroughNew ==
  /\ fl.pc = "mds_paged"
  /\ cb' = [cb EXCEPT !.paged_mds_epoch_ = fl.new_meta.epoch_id_]
  /\ LET r == AllocPageResult(mds.buffer, epoch_id_to_page_no(fl.new_meta.epoch_id_))
     IN /\ mds' = [mds EXCEPT !.buffer = r.buffer]
        /\ fl' = IF r.ret # "OK" THEN StoppedWith(fl, r.ret)
                 ELSE [fl EXCEPT !.pc = "mds_record", !.bufferp = r.bufferp]
        /\ failed' = {}
             \cup (IF nvwal_is_epoch_equal_or_after(mds_durable_epoch, mds_paged_epoch)
                     THEN {} ELSE {"update_paged_epoch:new_mpe>=paged_mds_epoch_"})
             \cup (IF r.ret = "OK" /\ ~r.bufferp
                     THEN {"alloc_page:this shouldn't happen"} ELSE {})
  /\ UNCHANGED << writerVars, stable_epoch, durable_epoch, segVars, disk, fs,
                  pagefile, cursor, rb, reader >>

\* mds_update_paged_epoch(wal, mds_durable_epoch(wal)), then the second call
\* of mds_bufmgr_alloc_page.
mds_update_paged_epoch ==
  /\ fl.pc = "mds_paged"
  /\ cb' = [cb EXCEPT !.paged_mds_epoch_ = mds_durable_epoch]
  /\ LET r == AllocPageResult(mds.buffer, epoch_id_to_page_no(fl.new_meta.epoch_id_))
     IN /\ mds' = [mds EXCEPT !.buffer = r.buffer]
        /\ fl' = IF r.ret # "OK" THEN StoppedWith(fl, r.ret)
                 ELSE [fl EXCEPT !.pc = "mds_record", !.bufferp = r.bufferp]
        /\ failed' = {}
             \cup (IF nvwal_is_epoch_equal_or_after(mds_durable_epoch, mds_paged_epoch)
                     THEN {} ELSE {"update_paged_epoch:new_mpe>=paged_mds_epoch_"})
             \cup (IF r.ret = "OK" /\ ~r.bufferp
                     THEN {"alloc_page:this shouldn't happen"} ELSE {})
  /\ UNCHANGED << writerVars, stable_epoch, durable_epoch, segVars, disk, fs,
                  pagefile, cursor, rb, reader >>

\* pmem_memcpy_persist of the record into its slot of the buffered page, then
\* the increment of latest_epoch_.
mds_write_epoch_record ==
  /\ fl.pc = "mds_record"
  /\ mds' = [mds EXCEPT
       !.buffer.page = IF fl.bufferp
         THEN [@ EXCEPT ![epoch_id_to_page_offset(fl.new_meta.epoch_id_)] = fl.new_meta]
         ELSE @,
       !.latest_epoch_ = @ + 1]
  /\ fl' = [fl EXCEPT !.pc = "mds_de"]
  /\ UNCHANGED << writerVars, stable_epoch, durable_epoch, cb, segVars, disk, fs,
                  pagefile, cursor, rb, reader >>
  /\ failed' = {}

\* mds_update_durable_epoch(wal, epoch_id): the durable store to the control
\* block that ends mds_write_epoch.
mds_update_durable_epoch ==
  /\ fl.pc = "mds_de"
  /\ cb' = [cb EXCEPT !.durable_epoch_ = fl.new_meta.epoch_id_]
  /\ failed' =
       (IF nvwal_is_epoch_equal_or_after(fl.new_meta.epoch_id_, cb.durable_epoch_)
          THEN {} ELSE {"update_durable_epoch:new_de>=durable_epoch_"})
  /\ fl' = [fl EXCEPT !.pc = "publish"]
  /\ UNCHANGED << writerVars, stable_epoch, durable_epoch, segVars, disk, fs,
                  mdsVars, cursor, rb, reader >>

\* A variant of flusher_update_de that leaves the head of the next epoch
\* where the concluded epoch began.
flusher_update_de_KeepHead ==
  /\ fl.pc = "publish"
  /\ fl' = [Returned(fl) EXCEPT !.head_dsid = fl.head_dsid,
                                 !.head_offset = fl.head_offset]
  /\ cb' = [cb EXCEPT !.durable_epoch_ = fl.target_epoch]
  /\ durable_epoch' = fl.target_epoch
  /\ failed' =
       (IF nvwal_is_epoch_equal_or_after(fl.target_epoch, cb.durable_epoch_)
          THEN {} ELSE {"update_de:new_de>=durable_epoch_"})
  /\ UNCHANGED << writerVars, stable_epoch, segVars, disk, fs, mdsVars, cursor, rb, reader >>

\* The end of flusher_conclude_stable_epoch: flusher_update_de, the store to
\* wal->durable_epoch_, and the head of the next epoch.
flusher_update_de ==
  /\ fl.pc = "publish"
  /\ LET cur_segment == segments[flusher_get_cur_segment]
     IN fl' = [Returned(fl) EXCEPT !.head_dsid = cur_segment.dsid_,
                                    !.head_offset = cur_segment.written_bytes_]
  /\ cb' = [cb EXCEPT !.durable_epoch_ = fl.target_epoch]
  /\ durable_epoch' = fl.target_epoch
  /\ failed' =
       (IF nvwal_is_epoch_equal_or_after(fl.target_epoch, cb.durable_epoch_)
          THEN {} ELSE {"update_de:new_de>=durable_epoch_"})
  /\ UNCHANGED << writerVars, stable_epoch, segVars, disk, fs, mdsVars, cursor, rb, reader >>

(***************************************************************************)
(* Fsyncer (nvwal_api.c).                                                  *)
(***************************************************************************)
\* nvwal_fsync_main after one pass of its for loop on fs.cur_segment.
AfterSegment(f) ==
  IF f.state # "stop_requested" /\ f.cur_segment + 1 < segment_count_
    THEN [f EXCEPT !.pc = "scan", !.cur_segment = @ + 1, !.dsid = 0]
    ELSE [f EXCEPT !.pc = "top", !.cur_segment = 0, !.dsid = 0]

\* The top of the while loop of nvwal_fsync_main.
FsyncerLoopTop ==
  /\ fs.pc = "top"
  /\ fs' = IF fs.state = "stop_requested"
             THEN [fs EXCEPT !.pc = "stopped", !.state = "stopped"]
             ELSE [fs EXCEPT !.pc = "scan", !.cur_segment = 0]
  /\ UNCHANGED << writerVars, stable_epoch, durable_epoch, cb, segVars, disk, fl,
                  mdsVars, cursor, rb, reader >>
  /\ failed' = {}

\* The assertions at the head of fsyncer_sync_one_segment_to_disk.
SyncFailures(segment) ==
  (IF segment.dsid_ = kNvwalInvalidDsid THEN {"sync:dsid_"} ELSE {})
  \cup (IF segment.fsync_completed_ # 0 THEN {"sync:!fsync_completed_"} ELSE {})

\* One pass of the for loop up to the open() of the disk file in
\* fsyncer_sync_one_segment_to_disk; the path is built from segment->dsid_.
fsyncer_scan_segment ==
  /\ fs.pc = "scan"
  /\ LET segment == segments[fs.cur_segment]
     IN IF segment.fsync_requested_ = 0
          THEN /\ fs' = AfterSegment(fs)
               /\ UNCHANGED << segments, disk >>
               /\ failed' = {}
          ELSE /\ segments' = [segments EXCEPT ![fs.cur_segment].fsync_error_ = "OK"]
               /\ disk' = IF segment.dsid_ \in DOMAIN disk THEN disk
                          ELSE (segment.dsid_ :> [data |-> [o \in 0 .. (segment_size_ - 1) |-> NoByte],
                                                  synced |-> FALSE]) @@ disk
               /\ fs' = [fs EXCEPT !.pc = "write", !.dsid = segment.dsid_]
               /\ failed' = SyncFailures(segment)
  /\ UNCHANGED << writerVars, stable_epoch, durable_epoch, cb, nvdata, persisted, fl,
                  mdsVars, cursor, rb, reader >>

\* error_return of fsyncer_sync_one_segment_to_disk, then the break out of
\* the for loop of nvwal_fsync_main.
SyncError(ret) ==
  /\ segments' = [segments EXCEPT ![fs.cur_segment].fsync_error_ = ret]
  /\ fs' = [fs EXCEPT !.pc = "top", !.error = ret, !.cur_segment = 0, !.dsid = 0]

\* open() fails.
fsyncer_open_fails ==
  /\ fs.pc = "scan"
  /\ segments[fs.cur_segment].fsync_requested_ # 0
  /\ SyncError("EACCES")
  /\ failed' = SyncFailures(segments[fs.cur_segment])
  /\ UNCHANGED << writerVars, stable_epoch, durable_epoch, cb, nvdata, persisted, disk,
                  fl, mdsVars, cursor, rb, reader >>

\* The write loop: the contents of the NV slot go to the disk file, then the
\* test for a requested stop.  A file that was synced stays so when the
\* bytes written are the bytes it holds.
fsyncer_write_segment ==
  /\ fs.pc = "write"
  /\ disk' = [disk EXCEPT ![fs.dsid] =
                [data |-> nvdata[fs.cur_segment],
                 synced |-> @.synced /\ @.data = nvdata[fs.cur_segment]]]
  /\ IF fs.state = "stop_requested"
       THEN SyncError("ETIMEDOUT")
       ELSE /\ fs' = [fs EXCEPT !.pc = "complete"]
            /\ UNCHANGED segments
  /\ UNCHANGED << writerVars, stable_epoch, durable_epoch, cb, nvdata, persisted, fl,
                  mdsVars, cursor, rb, reader >>
  /\ failed' = {}

\* write() fails.
fsyncer_write_fails ==
  /\ fs.pc = "write"
  /\ SyncError("ENOSPC")
  /\ UNCHANGED << writerVars, stable_epoch, durable_epoch, cb, nvdata, persisted, disk,
                  fl, mdsVars, cursor, rb, reader >>
  /\ failed' = {}

\* A variant of the end of fsyncer_sync_one_segment_to_disk without the
\* store of fsync_completed_.
fsyncer_complete_NoStore ==
  /\ fs.pc = "complete"
  /\ disk' = [disk EXCEPT ![fs.dsid].synced = TRUE]
  /\ fs' = [fs EXCEPT !.pc = "bump"]
  /\ UNCHANGED << writerVars, stable_epoch, durable_epoch, cb, segVars, fl,
                  mdsVars, cursor, rb, reader >>
  /\ failed' = {}

\* fsync, close, and the store of fsync_completed_.
fsyncer_complete ==
  /\ fs.pc = "complete"
  /\ disk' = [disk EXCEPT ![fs.dsid].synced = TRUE]
  /\ segments' = [segments EXCEPT ![fs.cur_segment].fsync_completed_ = 1]
  /\ fs' = [fs EXCEPT !.pc = "bump"]
  /\ UNCHANGED << writerVars, stable_epoch, durable_epoch, cb, nvdata, persisted, fl,
                  mdsVars, cursor, rb, reader >>
  /\ failed' = {}

\* The durable bump of last_synced_dsid_ to segment->dsid_.  The field is
\* read without synchronisation after fsync_completed_ was published, so the
\* store takes the value read when the sync began or the value the flusher
\* has stored since.
fsyncer_bump_last_synced ==
  /\ fs.pc = "bump"
  /\ \E dsid \in {fs.dsid, segments[fs.cur_segment].dsid_} :
       /\ cb' = [cb EXCEPT !.last_synced_dsid_ = dsid]
       /\ failed' = (IF dsid > cb.last_synced_dsid_ THEN {}
                     ELSE {"sync:dsid_>last_synced_dsid_"})
  /\ fs' = [AfterSegment(fs) EXCEPT !.error = "OK"]
  /\ UNCHANGED << writerVars, stable_epoch, durable_epoch, segVars, disk, fl,
                  mdsVars, cursor, rb, reader >>

(***************************************************************************)
(* Stop requests (nvwal_impl_thread_state_request_stop).                   *)
(***************************************************************************)
RequestStopFlusher ==
  /\ fl.state = "running"
  /\ fl' = [fl EXCEPT !.state = "stop_requested"]
  /\ UNCHANGED << writerVars, stable_epoch, durable_epoch, cb, segVars, disk, fs,
                  mdsVars, cursor, rb, reader >>
  /\ failed' = {}

RequestStopFsyncer ==
  /\ fs.state = "running"
  /\ fs' = [fs EXCEPT !.state = "stop_requested"]
  /\ UNCHANGED << writerVars, stable_epoch, durable_epoch, cb, segVars, disk, fl,
                  mdsVars, cursor, rb, reader >>
  /\ failed' = {}

(***************************************************************************)
(* Reading epoch records (nvwal_mds.c) and the log cursor                  *)
(* (nvwal_impl_cursor.c).                                                  *)
(***************************************************************************)
\* The page file holds the record of epoch_id; when it ends before the
\* record, pread returns 0 and mds_io_pread never returns.
FileHasRecord(epoch_id) == epoch_id_to_page_no(epoch_id) <= Len(pagefile.pages)

\* pread of the record of epoch_id from the page file.
FileRecord(epoch_id) ==
  IF FileHasRecord(epoch_id)
    THEN pagefile.pages[epoch_id_to_page_no(epoch_id)][epoch_id_to_page_offset(epoch_id)]
    ELSE NoMeta

\* mds_epoch_iterator_prefetch on iterator it = [cur, end, buf, meta, hung].
mds_epoch_iterator_prefetch(it) ==
  LET page_no == epoch_id_to_page_no(it.cur)
      first_epoch_id == it.buf[1].epoch_id_
      last_epoch_id == it.buf[Len(it.buf)].epoch_id_
      upper_epoch_id == Min(Min(it.cur + kNvwalMdsReadPrefetch - 1, it.end),
                            page_no * max_epochs_per_page)
      read == [i \in 1 .. (upper_epoch_id - it.cur + 1) |-> FileRecord(it.cur + i - 1)]
  IN IF mds.buffer.page_no_ = page_no /\ page_no # kNvwalInvalidPage
       THEN [it EXCEPT !.buf = << mds.buffer.page[epoch_id_to_page_offset(it.cur)] >>,
                       !.meta = mds.buffer.page[epoch_id_to_page_offset(it.cur)]]
     ELSE IF Len(it.buf) > 0 /\ it.cur >= first_epoch_id /\ it.cur <= last_epoch_id
       THEN [it EXCEPT !.meta = IF it.cur - first_epoch_id + 1 <= Len(it.buf)
                                  THEN it.buf[it.cur - first_epoch_id + 1] ELSE NoMeta]
     ELSE IF \E i \in DOMAIN read : ~FileHasRecord(it.cur + i - 1)
       THEN [it EXCEPT !.hung = TRUE]
     ELSE [it EXCEPT !.buf = read, !.meta = read[1]]

\* mds_epoch_iterator_init, for begin_epoch_id <= end_epoch_id.
mds_epoch_iterator_init(begin_epoch_id, end_epoch_id) ==
  mds_epoch_iterator_prefetch([cur |-> begin_epoch_id, end |-> end_epoch_id,
                               buf |-> << >>, meta |-> NoMeta, hung |-> FALSE])

\* A variant of mds_epoch_iterator_done that treats end_epoch_id_ as part of
\* the range.
mds_epoch_iterator_done_Inclusive(it) == it.cur > it.end

mds_epoch_iterator_done(it) == it.cur >= it.end

mds_epoch_iterator_next(it) ==
  IF it.cur + 1 < it.end THEN mds_epoch_iterator_prefetch([it EXCEPT !.cur = @ + 1])
  ELSE [it EXCEPT !.cur = @ + 1]

\* A reader thread runs mds_epoch_iterator_init and mds_epoch_iterator_next
\* while the flusher writes epochs.  One call of mds_epoch_iterator_prefetch
\* is the steps load, copy, copy_rest, recheck and fallback: the load of
\* nvbuf->page_no_, the memcpy of the record into buffer_.epoch_metadata_[0]
\* (a plain copy of a multi-word struct, here in two parts in either order),
\* the second load of page_no_, and the path through the iterator's own
\* buffer or the page file.
PrefetchSlots == 0 .. (kNvwalMdsReadPrefetch - 1)

IdleReader ==
  [pc |-> "idle", cur |-> 0, end |-> 0, num_entries_ |-> 0,
   buf |-> [i \in PrefetchSlots |-> NoMeta], nvbuf_page_no |-> 0,
   part |-> "none", meta |-> NoMeta]

\* The words of a record a partial memcpy has moved: the epoch_id_ word, or
\* the words after it.
CopyWords(dst, src, part) ==
  IF part = "epoch_id_" THEN [dst EXCEPT !.epoch_id_ = src.epoch_id_]
  ELSE [src EXCEPT !.epoch_id_ = dst.epoch_id_]

\* mds_epoch_iterator_init(wal, begin, end, iterator) by the reader, for a
\* range of durable epochs.
reader_iterator_init(begin_epoch_id, end_epoch_id) ==
  /\ reader.pc = "idle"
  /\ begin_epoch_id < end_epoch_id
  /\ end_epoch_id <= mds_durable_epoch + 1
  /\ reader' = [IdleReader EXCEPT !.pc = "load", !.cur = begin_epoch_id,
                                  !.end = end_epoch_id]
  /\ UNCHANGED << writerVars, stable_epoch, durable_epoch, cb, segVars, disk, fl, fs,
                  mdsVars, cursor, rb >>
  /\ failed' = {}

ReaderIteratorInit(max_epoch) ==
  \E b \in 1 .. max_epoch, e \in 1 .. (max_epoch + 1) : reader_iterator_init(b, e)

\* nvbuf_page_no = nvwal_atomic_load(&nvbuf->page_no_) and the test on it.
reader_load_page_no ==
  /\ reader.pc = "load"
  /\ reader' = [reader EXCEPT
       !.nvbuf_page_no = mds.buffer.page_no_,
       !.pc = IF mds.buffer.page_no_ = epoch_id_to_page_no(reader.cur)
                 /\ epoch_id_to_page_no(reader.cur) # kNvwalInvalidPage
              THEN "copy" ELSE "fallback"]
  /\ UNCHANGED << writerVars, stable_epoch, durable_epoch, cb, segVars, disk, fl, fs,
                  mdsVars, cursor, rb >>
  /\ failed' = {}

\* The first part of the memcpy out of the NV buffer.
reader_copy ==
  /\ reader.pc = "copy"
  /\ \E part \in {"epoch_id_", "rest"} :
       reader' = [reader EXCEPT
         !.buf[0] = CopyWords(@, mds.buffer.page[epoch_id_to_page_offset(reader.cur)],
                              part),
         !.part = part, !.pc = "copy_rest"]
  /\ UNCHANGED << writerVars, stable_epoch, durable_epoch, cb, segVars, disk, fl, fs,
                  mdsVars, cursor, rb >>
  /\ failed' = {}

\* The remaining part of the memcpy.
reader_copy_rest ==
  /\ reader.pc = "copy_rest"
  /\ reader' = [reader EXCEPT
       !.buf[0] = CopyWords(@, mds.buffer.page[epoch_id_to_page_offset(reader.cur)],
                            IF reader.part = "epoch_id_" THEN "rest" ELSE "epoch_id_"),
       !.part = "none", !.pc = "recheck"]
  /\ UNCHANGED << writerVars, stable_epoch, durable_epoch, cb, segVars, disk, fl, fs,
                  mdsVars, cursor, rb >>
  /\ failed' = {}

\* The second load of page_no_: an unchanged page number returns the copy.
reader_recheck ==
  /\ reader.pc = "recheck"
  /\ reader' = IF mds.buffer.page_no_ = reader.nvbuf_page_no
                 THEN [reader EXCEPT !.num_entries_ = 1, !.meta = reader.buf[0],
                                     !.pc = "yield"]
                 ELSE [reader EXCEPT !.pc = "fallback"]
  /\ UNCHANGED << writerVars, stable_epoch, durable_epoch, cb, segVars, disk, fl, fs,
                  mdsVars, cursor, rb >>
  /\ failed' = {}

\* The rest of mds_epoch_iterator_prefetch: the record comes from the
\* iterator's buffer when its first and last epoch ids enclose the current
\* epoch, and from a pread of the page file otherwise.
reader_fallback ==
  /\ reader.pc = "fallback"
  /\ LET page_no == epoch_id_to_page_no(reader.cur)
         first_epoch_id == reader.buf[0].epoch_id_
         last_epoch_id == reader.buf[reader.num_entries_ - 1].epoch_id_
         idx == reader.cur - first_epoch_id
         upper_epoch_id == Min(Min(reader.cur + kNvwalMdsReadPrefetch - 1, reader.end),
                               page_no * max_epochs_per_page)
         num_entries == upper_epoch_id - reader.cur + 1
     IN reader' =
          IF reader.num_entries_ > 0 /\ reader.cur >= first_epoch_id
             /\ reader.cur <= last_epoch_id
            THEN [reader EXCEPT !.meta = IF idx \in PrefetchSlots THEN reader.buf[idx]
                                         ELSE NoMeta,
                                !.pc = "yield"]
          ELSE IF \E i \in 0 .. (num_entries - 1) : ~FileHasRecord(reader.cur + i)
            THEN [reader EXCEPT !.pc = "hung"]
          ELSE [reader EXCEPT
                  !.buf = [i \in PrefetchSlots |->
                             IF i < num_entries THEN FileRecord(reader.cur + i)
                             ELSE reader.buf[i]],
                  !.num_entries_ = num_entries,
                  !.meta = FileRecord(reader.cur),
                  !.pc = "yield"]
  /\ UNCHANGED << writerVars, stable_epoch, durable_epoch, cb, segVars, disk, fl, fs,
                  mdsVars, cursor, rb >>
  /\ failed' = {}

\* mds_epoch_iterator_next, and mds_epoch_iterator_destroy once
\* mds_epoch_iterator_done holds.
reader_iterator_next ==
  /\ reader.pc = "yield"
  /\ reader' = IF reader.cur + 1 < reader.end
                 THEN [reader EXCEPT !.cur = @ + 1, !.pc = "load"]
                 ELSE IdleReader
  /\ UNCHANGED << writerVars, stable_epoch, durable_epoch, cb, segVars, disk, fl, fs,
                  mdsVars, cursor, rb >>
  /\ failed' = {}

\* The two user metadata words of the records, by the epoch_id_ of the
\* record: nvwal_api.c fills neither word of new_meta, so a record carries
\* any pair.
UserMetadataWords == (0 .. MaxUserMetadata) \X (0 .. MaxUserMetadata)
UserMetadataMaps == [0 .. MaxEpoch -> UserMetadataWords]

\* user_metadata(em, user_metadata_id), the words of em taken from um.
user_metadata(um, em, user_metadata_id) ==
  IF user_metadata_id = 1 THEN um[em.epoch_id_][2] ELSE um[em.epoch_id_][1]

\* The body of the while loop of mds_find_metadata_lower_bound after the
\* read of em at md, with sat the value predicate->method_ returns.
find_lower_step_NoOut(st, md, em, sat) ==
  IF sat THEN [st EXCEPT !.high = md - 1, !.found = 1]
  ELSE [st EXCEPT !.low = md + 1]

find_lower_step(st, md, em, sat) ==
  IF sat THEN [st EXCEPT !.high = md - 1, !.out = em, !.found = 1]
  ELSE [st EXCEPT !.low = md + 1]

\* The body of the while loop of mds_find_metadata_upper_bound.
find_upper_step(st, md, em, sat) ==
  IF sat THEN [st EXCEPT !.low = md + 1, !.out = em, !.found = 1]
  ELSE [st EXCEPT !.high = md - 1]

\* The while loops from st = [low, high, out, found, hung] on; the predicate
\* is the set of metadata words it accepts. A read that never returns
\* leaves the search hung.
RECURSIVE find_lower_loop(_, _, _, _)
find_lower_loop(um, user_metadata_id, predicate, st) ==
  IF st.hung \/ st.low > st.high THEN st
  ELSE LET md == (st.low + st.high) \div 2
           rd == mds_epoch_iterator_init(md, md + 1)
       IN IF rd.hung THEN [st EXCEPT !.hung = TRUE]
          ELSE find_lower_loop(um, user_metadata_id, predicate,
                 find_lower_step(st, md, rd.meta,
                   user_metadata(um, rd.meta, user_metadata_id) \in predicate))

RECURSIVE find_upper_loop(_, _, _, _)
find_upper_loop(um, user_metadata_id, predicate, st) ==
  IF st.hung \/ st.low > st.high THEN st
  ELSE LET md == (st.low + st.high) \div 2
           rd == mds_epoch_iterator_init(md, md + 1)
       IN IF rd.hung THEN [st EXCEPT !.hung = TRUE]
          ELSE find_upper_loop(um, user_metadata_id, predicate,
                 find_upper_step(st, md, rd.meta,
                   user_metadata(um, rd.meta, user_metadata_id) \in predicate))

\* mds_find_metadata_lower_bound and mds_find_metadata_upper_bound with
\* *out holding out on entry: [ret, out, hung].
mds_find_metadata_lower_bound(um, user_metadata_id, predicate, out) ==
  LET st == find_lower_loop(um, user_metadata_id, predicate,
              [low |-> kNvwalInvalidEpoch + 1, high |-> mds.latest_epoch_,
               out |-> out, found |-> 0, hung |-> FALSE])
  IN [ret |-> IF st.found = 1 THEN 0 ELSE 1, out |-> st.out, hung |-> st.hung]

mds_find_metadata_upper_bound(um, user_metadata_id, predicate, out) ==
  LET st == find_upper_loop(um, user_metadata_id, predicate,
              [low |-> kNvwalInvalidEpoch + 1, high |-> mds.latest_epoch_,
               out |-> out, found |-> 0, hung |-> FALSE])
  IN [ret |-> IF st.found = 1 THEN 0 ELSE 1, out |-> st.out, hung |-> st.hung]

\* The clamped upper end cursor_fetch_epoch_metadata passes to the iterator.
FetchToEpoch(from_epoch) ==
  IF nvwal_is_epoch_after(from_epoch + kNvwalCursorEpochPrefetches, durable_epoch)
    THEN durable_epoch ELSE from_epoch + kNvwalCursorEpochPrefetches

\* The for loop of cursor_fetch_epoch_metadata from pass i on: st carries the
\* iterator, cur_epoch, the records fetched and the assertions that failed.
RECURSIVE FetchLoop(_, _, _)
FetchLoop(st, i, to_epoch) ==
  IF i = kNvwalCursorEpochPrefetches \/ st.it.hung THEN st
  ELSE LET cur_epoch == nvwal_increment_epoch(st.cur_epoch)
           it == mds_epoch_iterator_next(st.it)
           stop == cur_epoch = to_epoch
           nst == [it |-> it, cur_epoch |-> cur_epoch,
                   fetched |-> Append(st.fetched, st.it.meta),
                   fails |-> st.fails
                     \cup (IF mds_epoch_iterator_done(st.it)
                             THEN {"fetch:!done"} ELSE {})
                     \cup (IF st.it.meta.epoch_id_ # st.cur_epoch
                             THEN {"fetch:epoch_id_==cur_epoch"} ELSE {})
                     \cup (IF stop /\ ~mds_epoch_iterator_done(it)
                             THEN {"fetch:done"} ELSE {})]
       IN IF stop THEN nst ELSE FetchLoop(nst, i + 1, to_epoch)

\* cursor_fetch_epoch_metadata(cursor, from_epoch): ret is EINVAL when the
\* iterator refuses the range.
cursor_fetch_epoch_metadata(from_epoch) ==
  LET to_epoch == FetchToEpoch(from_epoch)
      st0 == [it |-> mds_epoch_iterator_init(from_epoch, to_epoch),
              cur_epoch |-> from_epoch, fetched |-> << >>, fails |-> {}]
      st == FetchLoop(st0, 0, to_epoch)
  IN IF to_epoch < from_epoch
       THEN [ret |-> "EINVAL", hung |-> FALSE, fetched |-> << >>, fails |-> {}]
       ELSE [ret |-> "OK", hung |-> st.it.hung, fetched |-> st.fetched,
             fails |-> st.fails \cup (IF st.cur_epoch # to_epoch
                                        THEN {"fetch:cur_epoch==to_epoch"} ELSE {})]

ClosedCursor == [state |-> "closed", start_epoch_ |-> 0, end_epoch_ |-> 0,
                 current_epoch_ |-> 0, fetched_epochs_ |-> << >>,
                 cur_segment_id_ |-> 0, cur_segment_from_nv_segment_ |-> 0,
                 cur_segment_disk_fd_ |-> 0, cur_offset_ |-> 0, cur_len_ |-> 0,
                 served |-> << >>]

\* cursor_open_segment(cursor, dsid) on a cursor with no segment open.
cursor_open_segment(dsid) ==
  LET slot == flusher_get_segment_from_dsid(dsid)
  IN IF dsid >= cb.last_synced_dsid_
       THEN IF dsid \in DOMAIN disk
              THEN [ret |-> "OK", from_nv |-> 0, fd |-> 1, served |-> << >>, fails |-> {}]
              ELSE [ret |-> "ENOENT", from_nv |-> 0, fd |-> 0, served |-> << >>,
                    fails |-> {}]
       ELSE [ret |-> "OK", from_nv |-> 1, fd |-> 0, served |-> nvdata[slot],
             fails |-> IF segments[slot].dsid_ = dsid THEN {}
                       ELSE {"open_segment:nv_segment.dsid_==dsid"}]

(***************************************************************************)
(* The state after nvwal_init of a fresh log.  Slot i starts as segment    *)
(* i + 1 (nvwal_api.c:590-592 asserts a slot never used has a dsid of its  *)
(* own index).  The slots the flusher has not used yet start with          *)
(* fsync_completed_ set: its wait loop asserts that a slot whose           *)
(* fsync_completed_ is clear has fsync_requested_ set (nvwal_api.c:564-566)*)
(* and slot 0, the first current segment, starts with it clear             *)
(* (nvwal_api.c:552-554).                                                  *)
(***************************************************************************)
Init ==
  /\ frames = [w \in WriterIds |-> [f \in FrameIds |-> ZeroFrame]]
  /\ active_frame = [w \in WriterIds |-> 0]
  /\ oldest_frame = [w \in WriterIds |-> 0]
  /\ last_tail_offset = [w \in WriterIds |-> 0]
  /\ wbuf = [w \in WriterIds |-> [o \in 0 .. (writer_buffer_size_ - 1) |-> NoByte]]
  /\ wlog = [w \in WriterIds |-> << >>]
  /\ stable_epoch = 0
  /\ durable_epoch = 0
  /\ cb = [durable_epoch_ |-> 0, paged_mds_epoch_ |-> 0, last_synced_dsid_ |-> 0]
  /\ segments = [slot \in SlotIds |->
       [dsid_ |-> slot + 1, written_bytes_ |-> 0, fsync_requested_ |-> 0,
        fsync_completed_ |-> IF slot = 0 THEN 0 ELSE 1,
        fsync_error_ |-> "OK", nv_reader_pins_ |-> 0]]
  /\ nvdata = [slot \in SlotIds |-> [o \in 0 .. (segment_size_ - 1) |-> NoByte]]
  /\ persisted = [slot \in SlotIds |-> 0 .. (segment_size_ - 1)]
  /\ disk = << >>
  /\ fl = [pc |-> "idle", state |-> "running", error |-> "OK", cur_writer |-> 0,
           target_epoch |-> 0, is_stable |-> FALSE, frame_index |-> 0,
           cur_dsid |-> 1, head_dsid |-> 1, head_offset |-> 0,
           new_meta |-> NoMeta, bufferp |-> FALSE]
  /\ fs = [pc |-> "top", state |-> "running", error |-> "OK", cur_segment |-> 0, dsid |-> 0]
  /\ mds = [buffer |-> [page_no_ |-> 0, dirty_ |-> 0, page |-> ZeroPage],
            latest_epoch_ |-> 0]
  /\ pagefile = [pages |-> << >>, pos |-> 0]
  /\ cursor = ClosedCursor
  /\ rb = [pc |-> "none", epoch |-> 0]
  /\ reader = IdleReader
  /\ failed = {}

\* The state after nvwal_init creates a log with config.resuming_epoch_:
\* durable_epoch_ and stable_epoch_ start at the resuming epoch, and mds_init
\* has cleared the metadata store (latest_epoch_ = 0, no page buffered).
InitResuming(resuming_epoch) ==
  /\ frames = [w \in WriterIds |-> [f \in FrameIds |-> ZeroFrame]]
  /\ active_frame = [w \in WriterIds |-> 0]
  /\ oldest_frame = [w \in WriterIds |-> 0]
  /\ last_tail_offset = [w \in WriterIds |-> 0]
  /\ wbuf = [w \in WriterIds |-> [o \in 0 .. (writer_buffer_size_ - 1) |-> NoByte]]
  /\ wlog = [w \in WriterIds |-> << >>]
  /\ stable_epoch = resuming_epoch
  /\ durable_epoch = resuming_epoch
  /\ cb = [durable_epoch_ |-> resuming_epoch, paged_mds_epoch_ |-> 0, last_synced_dsid_ |-> 0]
  /\ segments = [slot \in SlotIds |->
       [dsid_ |-> slot + 1, written_bytes_ |-> 0, fsync_requested_ |-> 0,
        fsync_completed_ |-> IF slot = 0 THEN 0 ELSE 1,
        fsync_error_ |-> "OK", nv_reader_pins_ |-> 0]]
  /\ nvdata = [slot \in SlotIds |-> [o \in 0 .. (segment_size_ - 1) |-> NoByte]]
  /\ persisted = [slot \in SlotIds |-> 0 .. (segment_size_ - 1)]
  /\ disk = << >>
  /\ fl = [pc |-> "idle", state |-> "running", error |-> "OK", cur_writer |-> 0,
           target_epoch |-> 0, is_stable |-> FALSE, frame_index |-> 0,
           cur_dsid |-> 1, head_dsid |-> 1, head_offset |-> 0,
           new_meta |-> NoMeta, bufferp |-> FALSE]
  /\ fs = [pc |-> "top", state |-> "running", error |-> "OK", cur_segment |-> 0, dsid |-> 0]
  /\ mds = [buffer |-> [page_no_ |-> 0, dirty_ |-> 0, page |-> ZeroPage],
            latest_epoch_ |-> 0]
  /\ pagefile = [pages |-> << >>, pos |-> 0]
  /\ cursor = ClosedCursor
  /\ rb = [pc |-> "none", epoch |-> 0]
  /\ reader = IdleReader
  /\ failed = {}

InitResume == \E resuming_epoch \in 0 .. MaxResumingEpoch : InitResuming(resuming_epoch)

\* nvwal_open_log_cursor(wal, begin_epoch, end_epoch, out): cursor_next_initial
\* and, when it fails, nvwal_close_log_cursor.
nvwal_open_log_cursor(begin_epoch, end_epoch) ==
  /\ cursor.state = "closed"
  /\ LET f == cursor_fetch_epoch_metadata(begin_epoch)
         first_epoch_meta == f.fetched[1]
         o == cursor_open_segment(first_epoch_meta.from_seg_id_)
         opened == [ClosedCursor EXCEPT !.state = "open", !.start_epoch_ = begin_epoch,
                      !.end_epoch_ = end_epoch, !.current_epoch_ = begin_epoch,
                      !.fetched_epochs_ = f.fetched]
     IN IF f.ret # "OK"
          THEN /\ cursor' = ClosedCursor
               /\ failed' = f.fails
        ELSE IF f.hung
          THEN /\ cursor' = [opened EXCEPT !.state = "hung", !.fetched_epochs_ = << >>]
               /\ failed' = f.fails
        ELSE IF Len(f.fetched) = 0
          THEN /\ cursor' = opened
               /\ failed' = f.fails
        ELSE IF o.ret # "OK"
          THEN /\ cursor' = ClosedCursor
               /\ failed' = f.fails \cup o.fails
                    \cup (IF first_epoch_meta.from_seg_id_ = kNvwalInvalidDsid
                            THEN {"open_segment:dsid"} ELSE {})
        ELSE /\ cursor' = [opened EXCEPT
                  !.cur_segment_id_ = first_epoch_meta.from_seg_id_,
                  !.cur_segment_from_nv_segment_ = o.from_nv,
                  !.cur_segment_disk_fd_ = o.fd,
                  !.served = o.served,
                  !.cur_offset_ = first_epoch_meta.from_offset_,
                  !.cur_len_ =
                    IF first_epoch_meta.to_seg_id_ # first_epoch_meta.from_seg_id_
                      THEN segment_size_ - first_epoch_meta.from_offset_
                      ELSE first_epoch_meta.to_off_ - first_epoch_meta.from_offset_]
             /\ failed' = f.fails \cup o.fails
                    \cup (IF first_epoch_meta.from_seg_id_ = kNvwalInvalidDsid
                            THEN {"open_segment:dsid"} ELSE {})
                         \cup (IF first_epoch_meta.to_seg_id_ = first_epoch_meta.from_seg_id_
                             /\ first_epoch_meta.to_off_ < first_epoch_meta.from_offset_
                            THEN {"next_initial:end_offset_>=start_offset_"} ELSE {})
  /\ UNCHANGED << writerVars, stable_epoch, durable_epoch, cb, segVars, disk, fl, fs,
                  mdsVars, rb, reader >>

\* The reader opens cursors over one epoch.
OpenLogCursor == \E epoch \in Epochs : nvwal_open_log_cursor(epoch, epoch)

\* The reader opens cursors over a range of epochs.
OpenLogCursorRange ==
  \E begin_epoch \in Epochs, end_epoch \in Epochs :
    begin_epoch <= end_epoch /\ nvwal_open_log_cursor(begin_epoch, end_epoch)

\* nvwal_cursor_next: cursor_close_cur_segment, then return 0.
nvwal_cursor_next ==
  /\ cursor.state = "open"
  /\ cursor.cur_segment_id_ # kNvwalInvalidDsid
  /\ cursor' = [cursor EXCEPT !.cur_segment_id_ = kNvwalInvalidDsid,
                              !.cur_segment_from_nv_segment_ = 0,
                              !.cur_segment_disk_fd_ = 0, !.served = << >>]
  /\ failed' = IF cursor.cur_segment_from_nv_segment_ = 1 /\ cursor.cur_segment_disk_fd_ # 0
                 THEN {"close_cur_segment:cur_segment_disk_fd_==0"} ELSE {}
  /\ UNCHANGED << writerVars, stable_epoch, durable_epoch, cb, segVars, disk, fl, fs,
                  mdsVars, rb, reader >>

\* nvwal_close_log_cursor: cursor_close_cur_segment, then memset.
nvwal_close_log_cursor ==
  /\ cursor.state = "open"
  /\ cursor' = ClosedCursor
  /\ failed' = {}
  /\ UNCHANGED << writerVars, stable_epoch, durable_epoch, cb, segVars, disk, fl, fs,
                  mdsVars, rb, reader >>

(***************************************************************************)
(* A crash of the process or host: threads and volatile memory are gone;   *)
(* of the stores to NVDIMM only the persisted ones are sure to remain.     *)
(***************************************************************************)
LostByte == << 0, 0 >>

Crash ==
  /\ fl.pc # "crashed"
  /\ fl' = [Returned(fl) EXCEPT !.pc = "crashed", !.state = "crashed"]
  /\ fs' = [fs EXCEPT !.pc = "crashed", !.state = "crashed", !.cur_segment = 0, !.dsid = 0]
  /\ \E kept \in {TRUE, FALSE} :
       nvdata' = [slot \in SlotIds |-> [o \in 0 .. (segment_size_ - 1) |->
                    IF o \in persisted[slot] \/ kept THEN nvdata[slot][o] ELSE LostByte]]
  /\ persisted' = [slot \in SlotIds |-> 0 .. (segment_size_ - 1)]
  /\ cursor' = ClosedCursor
  /\ frames' = [w \in WriterIds |-> [f \in FrameIds |-> ZeroFrame]]
  /\ active_frame' = [w \in WriterIds |-> 0]
  /\ oldest_frame' = [w \in WriterIds |-> 0]
  /\ last_tail_offset' = [w \in WriterIds |-> 0]
  /\ wbuf' = [w \in WriterIds |-> [o \in 0 .. (writer_buffer_size_ - 1) |-> NoByte]]
  /\ failed' = {}
  /\ reader' = IdleReader
  /\ UNCHANGED << wlog, stable_epoch, durable_epoch, cb, segments, disk, mdsVars, rb >>

(***************************************************************************)
(* Restart: mds_init in restart mode (nvwal_mds.c).  mds_bufmgr_init maps   *)
(* the NV buffer file again with page_no_ and dirty_ cleared, mds_io_init  *)
(* reopens the page file, and mds_recover reconciles them with the control *)
(* block.  The threads are not started again in the model.                 *)
(***************************************************************************)
\* mds_bufmgr_map_nvram_buffer: the contents of the buffer file are what was
\* persisted; the descriptor in memory starts from zero.
MappedBuffer == [page_no_ |-> 0, dirty_ |-> 0, page |-> mds.buffer.page]

\* mds_recover: the buffer, the pages of the page file and paged_mds_epoch_
\* it leaves; hung when the rollback it completes reads past the end of the
\* page file.
mds_recover ==
  LET latest_epoch == mds_durable_epoch
      latest_paged_epoch == mds_paged_epoch
      page_no == epoch_id_to_page_no(latest_epoch)
  IN IF latest_epoch < latest_paged_epoch
       THEN IF page_no >= 1 /\ page_no <= Len(pagefile.pages)
              THEN [hung |-> FALSE,
                    buffer |-> [page_no_ |-> page_no, dirty_ |-> 1,
                                page |-> pagefile.pages[page_no]],
                    pages |-> SubSeq(pagefile.pages, 1, page_no - 1),
                    paged |-> max_epochs_per_page * (page_no - 1)]
              ELSE [hung |-> TRUE, buffer |-> MappedBuffer,
                    pages |-> pagefile.pages, paged |-> latest_paged_epoch]
       ELSE [hung |-> FALSE,
             buffer |-> IF page_no # kNvwalInvalidPage
                          THEN AllocPageResult(MappedBuffer, page_no).buffer
                          ELSE MappedBuffer,
             pages |-> pagefile.pages, paged |-> latest_paged_epoch]

\* nvwal_init(config, kNvwalInitRestart, wal) after a crash or after the
\* threads were stopped: the volatile epochs restart from the control block.
Restart ==
  /\ fl.pc \in {"crashed", "stopped"}
  /\ LET r == mds_recover
     IN /\ mds' = [buffer |-> r.buffer,
                   latest_epoch_ |-> IF r.hung THEN 0 ELSE mds_durable_epoch]
        /\ pagefile' = [pagefile EXCEPT !.pages = r.pages]
        /\ cb' = [cb EXCEPT !.paged_mds_epoch_ = r.paged]
        /\ fl' = [Returned(fl) EXCEPT
                    !.pc = IF r.hung THEN "restart_hung" ELSE "restarted",
                    !.state = "init", !.error = "OK"]
  /\ fs' = [fs EXCEPT !.pc = "restarted", !.state = "init", !.error = "OK",
                      !.cur_segment = 0, !.dsid = 0]
  /\ durable_epoch' = cb.durable_epoch_
  /\ stable_epoch' = cb.durable_epoch_
  /\ rb' = [pc |-> "none", epoch |-> 0]
  /\ cursor' = ClosedCursor
  /\ reader' = IdleReader
  /\ failed' = {}
  /\ UNCHANGED << writerVars, segVars, disk >>

(***************************************************************************)
(* mds_rollback_to_epoch (nvwal_mds.c), called while no epoch is being     *)
(* concluded.                                                              *)
(***************************************************************************)
\* mds_set_durable_epoch(wal, epoch), then the test epoch < mds_paged_epoch.
mds_rollback_to_epoch(epoch) ==
  /\ rb.pc = "none"
  /\ fl.pc = "stopped"
  /\ epoch <= cb.durable_epoch_
  /\ cb' = [cb EXCEPT !.durable_epoch_ = epoch]
  /\ rb' = [pc |-> IF epoch < mds_paged_epoch THEN "read_page" ELSE "latest",
            epoch |-> epoch]
  /\ failed' = {}
  /\ UNCHANGED << writerVars, stable_epoch, durable_epoch, segVars, disk, fl, fs,
                  mdsVars, cursor, reader >>

RollbackToEpoch == \E epoch \in Epochs : mds_rollback_to_epoch(epoch)

\* mds_bufmgr_read_page(bufmgr, file, page_no): the page of the rolled-back
\* epoch is read from the page file into the NV buffer.  A read past the end
\* of the file never returns.
mds_bufmgr_read_page ==
  /\ rb.pc = "read_page"
  /\ LET page_no == epoch_id_to_page_no(rb.epoch)
     IN IF page_no >= 1 /\ page_no <= Len(pagefile.pages)
          THEN /\ mds' = [mds EXCEPT !.buffer = [page_no_ |-> page_no, dirty_ |-> 1,
                                                 page |-> pagefile.pages[page_no]]]
               /\ rb' = [rb EXCEPT !.pc = "truncate"]
          ELSE /\ rb' = [rb EXCEPT !.pc = "hung"]
               /\ UNCHANGED mds
  /\ failed' = {}
  /\ UNCHANGED << writerVars, stable_epoch, durable_epoch, cb, segVars, disk, fl, fs,
                  pagefile, cursor, reader >>

\* A variant of mds_io_truncate_file that keeps the page of the rolled-back
\* epoch in the page file.
mds_io_truncate_file_KeepPage ==
  /\ rb.pc = "truncate"
  /\ pagefile' = [pagefile EXCEPT
       !.pages = SubSeq(@, 1, Min(Len(@), epoch_id_to_page_no(rb.epoch)))]
  /\ rb' = [rb EXCEPT !.pc = "set_paged"]
  /\ failed' = {}
  /\ UNCHANGED << writerVars, stable_epoch, durable_epoch, cb, segVars, disk, fl, fs,
                  mds, cursor, reader >>

\* mds_io_truncate_file(file, page_no - 1): ftruncate and fsync.
mds_io_truncate_file ==
  /\ rb.pc = "truncate"
  /\ pagefile' = [pagefile EXCEPT
       !.pages = SubSeq(@, 1, Min(Len(@), epoch_id_to_page_no(rb.epoch) - 1))]
  /\ rb' = [rb EXCEPT !.pc = "set_paged"]
  /\ failed' = {}
  /\ UNCHANGED << writerVars, stable_epoch, durable_epoch, cb, segVars, disk, fl, fs,
                  mds, cursor, reader >>

\* A variant of mds_set_paged_epoch that counts the page of the rolled-back
\* epoch as still paged.
mds_set_paged_epoch_ThroughPage ==
  /\ rb.pc = "set_paged"
  /\ cb' = [cb EXCEPT !.paged_mds_epoch_ =
              max_epochs_per_page * epoch_id_to_page_no(rb.epoch)]
  /\ rb' = [rb EXCEPT !.pc = "latest"]
  /\ failed' = {}
  /\ UNCHANGED << writerVars, stable_epoch, durable_epoch, segVars, disk, fl, fs,
                  mdsVars, cursor, reader >>

\* mds_set_paged_epoch(wal, max_epochs_per_page * new_latest_paged_page).
mds_set_paged_epoch ==
  /\ rb.pc = "set_paged"
  /\ cb' = [cb EXCEPT !.paged_mds_epoch_ =
              max_epochs_per_page * (epoch_id_to_page_no(rb.epoch) - 1)]
  /\ rb' = [rb EXCEPT !.pc = "latest"]
  /\ failed' = {}
  /\ UNCHANGED << writerVars, stable_epoch, durable_epoch, segVars, disk, fl, fs,
                  mdsVars, cursor, reader >>

\* The end of mds_rollback_to_epoch: latest_epoch_ is lowered to epoch.
mds_rollback_latest_epoch ==
  /\ rb.pc = "latest"
  /\ mds' = [mds EXCEPT !.latest_epoch_ = Min(@, rb.epoch)]
  /\ rb' = [pc |-> "none", epoch |-> 0]
  /\ failed' = {}
  /\ UNCHANGED << writerVars, stable_epoch, durable_epoch, cb, segVars, disk, fl, fs,
                  pagefile, cursor, reader >>

\* mds_writeback(wal), called like mds_rollback_to_epoch while no epoch is
\* being concluded.
mds_writeback ==
  /\ rb.pc = "none"
  /\ fl.pc = "stopped"
  /\ pagefile' = WritebackResult(mds.buffer, pagefile).file
  /\ mds' = [mds EXCEPT !.buffer = WritebackResult(mds.buffer, pagefile).buffer]
  /\ failed' = {}
  /\ UNCHANGED << writerVars, stable_epoch, durable_epoch, cb, segVars, disk, fl, fs,
                  cursor, rb, reader >>

\* mds_writeback(wal) called between two calls of mds_write_epoch: the
\* flusher is at the top of its loop or stopped.
mds_writeback_between_epochs ==
  /\ rb.pc = "none"
  /\ fl.pc \in {"idle", "stopped"}
  /\ pagefile' = WritebackResult(mds.buffer, pagefile).file
  /\ mds' = [mds EXCEPT !.buffer = WritebackResult(mds.buffer, pagefile).buffer]
  /\ failed' = {}
  /\ UNCHANGED << writerVars, stable_epoch, durable_epoch, cb, segVars, disk, fl, fs,
                  cursor, rb, reader >>

Rollback ==
  \/ RollbackToEpoch
  \/ mds_bufmgr_read_page
  \/ mds_io_truncate_file
  \/ mds_set_paged_epoch
  \/ mds_rollback_latest_epoch

Flusher ==
  \/ FlusherLoopTop
  \/ flusher_copy_one_writer_to_nv
  \/ flusher_copy_next_pass
  \/ flusher_wait_fsync_completed
  \/ flusher_pin_for_recycle
  \/ flusher_recycle_segment
  \/ flusher_unpin_recycled
  \/ flusher_conclude_stable_epoch
  \/ mds_write_epoch_alloc
  \/ mds_bufmgr_writeback
  \/ mds_update_paged_epoch
  \/ mds_write_epoch_record
  \/ mds_update_durable_epoch
  \/ flusher_update_de

Fsyncer ==
  \/ FsyncerLoopTop
  \/ fsyncer_scan_segment
  \/ fsyncer_write_segment
  \/ fsyncer_complete
  \/ fsyncer_bump_last_synced

Cursor ==
  \/ OpenLogCursor
  \/ nvwal_cursor_next
  \/ nvwal_close_log_cursor

Next ==
  \/ OnWalWrite(WriterIds, MaxBytes, MaxEpoch)
  \/ AdvanceStableEpoch(MaxEpoch)
  \/ Flusher
  \/ Fsyncer
  \/ Crash

Spec == Init /\ [][Next]_vars

\* A supervisor may ask the threads to stop.
NextStop ==
  \/ OnWalWrite(WriterIds, MaxBytesStop, MaxEpoch)
  \/ AdvanceStableEpoch(MaxEpoch)
  \/ Flusher
  \/ Fsyncer
  \/ RequestStopFlusher
  \/ RequestStopFsyncer

SpecStop == Init /\ [][NextStop]_vars

\* One writer fills the segment ring while a reader opens cursors.
NextCursor ==
  \/ OnWalWrite({0}, MaxBytesCursor, MaxEpochCursor)
  \/ AdvanceStableEpoch(MaxEpoch)
  \/ Flusher
  \/ Fsyncer
  \/ Cursor

SpecCursor == Init /\ [][NextCursor]_vars

\* One writer fills the segment ring; the machine may crash.
NextRing ==
  \/ OnWalWrite({0}, MaxBytesRing, MaxEpoch)
  \/ AdvanceStableEpoch(MaxEpoch)
  \/ Flusher
  \/ Fsyncer
  \/ Crash

SpecRing == Init /\ [][NextRing]_vars

\* The metadata store: one writer, the flusher concludes epochs, is stopped,
\* and epochs are rolled back.
NextMds ==
  \/ OnWalWrite({0}, MaxBytesMds, MaxEpoch)
  \/ AdvanceStableEpoch(MaxEpoch)
  \/ Flusher
  \/ RequestStopFlusher
  \/ Rollback

SpecMds == Init /\ [][NextMds]_vars

\* The metadata store with mds_writeback calls of the client.
NextMdsWriteback ==
  \/ NextMds
  \/ mds_writeback

SpecMdsWriteback == Init /\ [][NextMdsWriteback]_vars

\* The metadata store while a reader thread iterates over durable epochs.
NextMdsRead ==
  \/ OnWalWrite({0}, MaxBytesMdsRead, MaxEpochMdsRead)
  \/ AdvanceStableEpoch(MaxEpochMdsRead)
  \/ Flusher
  \/ ReaderIteratorInit(MaxEpochMdsRead)
  \/ reader_load_page_no
  \/ reader_copy
  \/ reader_copy_rest
  \/ reader_recheck
  \/ reader_fallback
  \/ reader_iterator_next

SpecMdsRead == Init /\ [][NextMdsRead]_vars

\* The metadata store with mds_writeback calls between the epochs the
\* flusher concludes.
NextMdsPages ==
  \/ OnWalWrite({0}, MaxBytesMds, MaxEpoch)
  \/ AdvanceStableEpoch(MaxEpoch)
  \/ Flusher
  \/ mds_writeback_between_epochs

SpecMdsPages == Init /\ [][NextMdsPages]_vars

\* The metadata store of a log created with a resuming epoch.
NextResume ==
  \/ OnWalWrite({0}, MaxBytesMds, MaxEpochResume)
  \/ AdvanceStableEpoch(MaxEpochResume)
  \/ Flusher

SpecResume == InitResume /\ [][NextResume]_vars

\* The pipeline with fair threads, no stop request, no crash.
NextFair ==
  \/ OnWalWrite(WriterIds, MaxBytesFair, MaxEpoch)
  \/ AdvanceStableEpoch(MaxEpoch)
  \/ Flusher
  \/ Fsyncer

FairSpec == Init /\ [][NextFair]_vars /\ WF_vars(Flusher) /\ WF_vars(Fsyncer)

\* One writer, and a reader that iterates cursors over epoch ranges.
NextReader ==
  \/ OnWalWrite({0}, MaxBytesReader, MaxEpochReader)
  \/ AdvanceStableEpoch(MaxEpoch)
  \/ Flusher
  \/ Fsyncer
  \/ OpenLogCursorRange
  \/ nvwal_cursor_next
  \/ nvwal_close_log_cursor

SpecReader == Init /\ [][NextReader]_vars

\* One writer and the flusher; the machine may crash and be restarted.
NextRecover ==
  \/ OnWalWrite({0}, MaxBytesRecover, MaxEpoch)
  \/ AdvanceStableEpoch(MaxEpoch)
  \/ Flusher
  \/ Crash
  \/ Restart

SpecRecover == Init /\ [][NextRecover]_vars

\* The metadata store with rollbacks, followed by a restart.
NextMdsRestart ==
  \/ OnWalWrite({0}, MaxBytesMds, MaxEpoch)
  \/ AdvanceStableEpoch(MaxEpoch)
  \/ Flusher
  \/ RequestStopFlusher
  \/ Rollback
  \/ Restart

SpecMdsRestart == Init /\ [][NextMdsRestart]_vars

\* One writer appends one byte to each epoch, so that oldest_frame_ moves
\* through the frame ring.
NextFrames ==
  \/ OneByteEachEpoch(0, MaxEpochFrames)
  \/ AdvanceStableEpoch(MaxEpochFrames)
  \/ Flusher
  \/ Fsyncer

SpecFrames == Init /\ [][NextFrames]_vars

\* The pipeline with fair threads while one writer fills the segment ring
\* more than once.
NextFairRing ==
  \/ OnWalWrite({0}, MaxBytesFairRing, MaxEpochFairRing)
  \/ AdvanceStableEpoch(MaxEpoch)
  \/ Flusher
  \/ Fsyncer

FairRingSpec ==
  Init /\ [][NextFairRing]_vars /\ WF_vars(Flusher) /\ WF_vars(Fsyncer)

\* The pipeline with fair threads and a supervisor that may ask them to stop.
NextFairStop ==
  \/ OnWalWrite({0}, MaxBytesFairStop, MaxEpochFairStop)
  \/ AdvanceStableEpoch(MaxEpoch)
  \/ Flusher
  \/ Fsyncer
  \/ RequestStopFlusher
  \/ RequestStopFsyncer

FairStopSpec ==
  Init /\ [][NextFairStop]_vars /\ WF_vars(Flusher) /\ WF_vars(Fsyncer)

\* The pipeline with fair threads, where open() and write() of a disk
\* segment file may fail.
NextFairIo ==
  \/ OnWalWrite({0}, MaxBytesFairIo, MaxEpoch)
  \/ AdvanceStableEpoch(MaxEpoch)
  \/ Flusher
  \/ Fsyncer
  \/ fsyncer_open_fails
  \/ fsyncer_write_fails

FairIoSpec ==
  Init /\ [][NextFairIo]_vars /\ WF_vars(Flusher) /\ WF_vars(Fsyncer)

(***************************************************************************)
(* Properties.                                                             *)
(***************************************************************************)
\* The record of epoch_id as the metadata store holds it: in the NV buffer
\* when it buffers the epoch's page, else in the page file.
MdsRecord(epoch_id) ==
  IF mds.buffer.page_no_ = epoch_id_to_page_no(epoch_id)
    THEN mds.buffer.page[epoch_id_to_page_offset(epoch_id)]
    ELSE FileRecord(epoch_id)

\* Segment dsid is on disk: its file is written and synced.
OnDisk(dsid) == dsid \in DOMAIN disk /\ disk[dsid].synced

\* The byte at offset o of segment dsid survives a crash in the NV ring.
PersistedInNv(dsid, o) ==
  LET slot == flusher_get_segment_from_dsid(dsid)
  IN /\ segments[slot].dsid_ = dsid
     /\ o \in persisted[slot]
     /\ nvdata[slot][o] # LostByte

\* C1: whenever the control block's durable_epoch_ is e, the record of every
\* epoch up to e is persisted in its slot of the metadata store, and every
\* byte of its range is on disk or persisted in its NV segment; this holds in
\* every intermediate state of a conclusion and in the state a crash leaves.
C1_DurableEpochIsPersisted ==
  \A e \in 1 .. cb.durable_epoch_ :
    LET rec == MdsRecord(e)
    IN /\ rec.epoch_id_ = e
       /\ \A dsid \in rec.from_seg_id_ .. rec.to_seg_id_ :
            \A o \in PersistRange(rec, dsid) : OnDisk(dsid) \/ PersistedInNv(dsid, o)

\* The frames of writer w that still hold bytes the flusher has not copied.
PendingFrames(w) ==
  {f \in FrameIds : frames[w][f].log_epoch_ # kNvwalInvalidEpoch
                    /\ frames[w][f].head_offset_ # frames[w][f].tail_offset_}

\* C2: once durable_epoch_ is e, no frame of any writer tagged e or older
\* still has bytes to copy (head_offset_ = tail_offset_).
C2_DurableImpliesCopied ==
  \A w \in WriterIds : \A f \in PendingFrames(w) :
    nvwal_is_epoch_after(frames[w][f].log_epoch_, durable_epoch)

\* The segment byte at (dsid, o): in the NV slot while it holds dsid, else in
\* the disk file.
SegmentByte(dsid, o) ==
  IF o >= segment_size_ THEN NoByte
  ELSE IF segments[flusher_get_segment_from_dsid(dsid)].dsid_ = dsid
    THEN nvdata[flusher_get_segment_from_dsid(dsid)][o]
  ELSE IF dsid \in DOMAIN disk THEN disk[dsid].data[o]
  ELSE NoByte

\* The positions (dsid, o) of the range of record rec, in order.
RECURSIVE RangeFrom(_, _, _)
RangeFrom(rec, dsid, o) ==
  IF dsid > rec.to_seg_id_ \/ (dsid = rec.to_seg_id_ /\ o >= rec.to_off_) THEN << >>
  ELSE IF o >= segment_size_ /\ dsid < rec.to_seg_id_ THEN RangeFrom(rec, dsid + 1, 0)
  ELSE << << dsid, o >> >> \o RangeFrom(rec, dsid, o + 1)

RangeBytes(rec) ==
  LET range == RangeFrom(rec, rec.from_seg_id_, rec.from_offset_)
  IN [i \in 1 .. Len(range) |-> SegmentByte(range[i][1], range[i][2])]

\* The bytes writer w tagged e, in the order it wrote them.
TaggedBytes(w, e) == {k \in 1 .. Len(wlog[w]) : wlog[w][k] = e}

\* C3: the range of the record of every durable epoch e holds exactly the
\* bytes tagged e: as many as were written, only bytes tagged e, none twice,
\* and each writer's bytes in the order it wrote them.
C3_RecordHoldsEpochBytes ==
  \A e \in 1 .. durable_epoch :
    LET bytes == RangeBytes(MdsRecord(e))
    IN /\ \A w \in WriterIds : \A k \in TaggedBytes(w, e) :
            \E i \in 1 .. Len(bytes) : bytes[i] = Byte(w, k)
       /\ \A i \in 1 .. Len(bytes) :
            /\ Len(bytes[i]) = 2
            /\ bytes[i][1] \in WriterIds
            /\ bytes[i][2] \in TaggedBytes(bytes[i][1], e)
       /\ \A i, j \in 1 .. Len(bytes) :
            (i < j /\ bytes[i][1] = bytes[j][1]) => bytes[i][2] < bytes[j][2]
\* The slots of writer w from oldest_frame_ to active_frame_, in ring order.
FrameWalk(w) ==
  LET len == ((active_frame[w] - oldest_frame[w] + kNvwalEpochFrameCount)
                % kNvwalEpochFrameCount) + 1
  IN [i \in 1 .. len |-> wrap_writer_epoch_frame(oldest_frame[w] + i - 1)]

InUse(w, f) == frames[w][f].log_epoch_ # kNvwalInvalidEpoch

\* C4 (as stated): in every reachable state, also inside
\* mds_rollback_to_epoch, paged_mds_epoch_ <= durable_epoch_ <= stable_epoch_.
C4_EpochOrderAlways ==
  /\ cb.paged_mds_epoch_ <= cb.durable_epoch_
  /\ cb.durable_epoch_ <= stable_epoch
  /\ durable_epoch <= stable_epoch

\* mds_rollback_to_epoch has stored the new durable epoch and has not yet
\* reset paged_mds_epoch_.
InsideRollback == rb.pc \in {"read_page", "truncate", "set_paged"}

\* C4 (amended): paged_mds_epoch_ <= durable_epoch_ in every state that is
\* not between the two stores of a mds_rollback_to_epoch, and
\* durable_epoch_ <= stable_epoch_ in every state.
C4_EpochOrderOutsideRollback ==
  /\ ~InsideRollback => cb.paged_mds_epoch_ <= cb.durable_epoch_
  /\ cb.durable_epoch_ <= stable_epoch
  /\ durable_epoch <= stable_epoch

\* C4 witness: a rollback below paged_mds_epoch_ has completed after a page
\* of the metadata store was written back.
C4_Witness ==
  /\ rb.pc = "none"
  /\ fl.pc = "stopped"
  /\ cb.durable_epoch_ < durable_epoch
  /\ Len(pagefile.pages) = 0 /\ pagefile.pos > 0

UnflushedBytes(w) ==
  LET RECURSIVE Sum(_)
      Sum(fs_) == IF fs_ = {} THEN 0
                  ELSE LET f == CHOOSE g \in fs_ : TRUE
                       IN calculate_writer_offset_distance(frames[w][f].head_offset_,
                                                           frames[w][f].tail_offset_)
                          + Sum(fs_ \ {f})
  IN Sum({f \in FrameIds : InUse(w, f)})

\* C6: nvwal_has_enough_writer_space returns true exactly when the writer's
\* unflushed bytes are at most half of writer_buffer_size_.
C6_EnoughSpaceIffHalfFree ==
  \A w \in WriterIds :
    nvwal_has_enough_writer_space(w) <=> (UnflushedBytes(w) * 2 <= writer_buffer_size_)

WriterAssertions ==
  {"assure:active_frame_==oldest_frame_", "assure:active_frame_!=oldest_frame_",
   "assure:log_epoch_==kNvwalInvalidEpoch", "on_write:log_epoch_",
   "on_write:tail_offset_==last_tail_offset_", "on_write:enough_space",
   "wrap_writer_offset:range"}

\* The flusher's scan from oldest_frame_ reaches slot f of writer w.
FlusherScans(w, f) ==
  /\ f >= oldest_frame[w]
  /\ \A g \in oldest_frame[w] .. f : InUse(w, g)

\* C7: a write of a conforming client fails no assertion of
\* nvwal_on_wal_write and assure_writer_active_frame, and every frame in use
\* is in a slot the flusher's scan reaches.
C7_ConformingWriterIsSafe ==
  /\ failed \cap WriterAssertions = {}
  /\ \A w \in WriterIds : \A f \in FrameIds : InUse(w, f) => FlusherScans(w, f)

\* C8: walking a writer's frames from oldest_frame_ to active_frame_, the
\* log_epoch_ of the frames in use strictly increases.
C8_FrameEpochsIncrease ==
  \A w \in WriterIds :
    \A i, j \in DOMAIN FrameWalk(w) :
      (i < j /\ InUse(w, FrameWalk(w)[i]) /\ InUse(w, FrameWalk(w)[j]))
        => frames[w][FrameWalk(w)[i]].log_epoch_ < frames[w][FrameWalk(w)[j]].log_epoch_

\* C8 witness: a writer has frames of two epochs in use on its walk.
C8_Witness ==
  \E w \in WriterIds :
    \E i, j \in DOMAIN FrameWalk(w) :
      i < j /\ InUse(w, FrameWalk(w)[i]) /\ InUse(w, FrameWalk(w)[j])

\* The cursor serves segment cur_segment_id_ from its NV slot, which holds
\* that segment with the contents the cursor was given.
ServingFromNv ==
  /\ cursor.cur_segment_from_nv_segment_ = 1
  /\ segments[flusher_get_segment_from_dsid(cursor.cur_segment_id_)].dsid_
       = cursor.cur_segment_id_
  /\ nvdata[flusher_get_segment_from_dsid(cursor.cur_segment_id_)] = cursor.served

\* C9: while the cursor serves a segment from its NV slot, no step recycles
\* the slot: the slot keeps the segment's dsid and its contents.
C9_ServedNvSegmentIsStable ==
  [][(ServingFromNv /\ cursor' = cursor) => ServingFromNv']_vars

\* C10: nvwal_open_log_cursor(e, e) for a durable epoch e succeeds without a
\* failed assertion and leaves the cursor on the first segment of e, at
\* from_offset_, with the length of the part of e in that segment.
C10_OpenDurableEpochSucceeds ==
  [][\A e \in Epochs :
       (e <= durable_epoch /\ nvwal_open_log_cursor(e, e)) =>
         LET rec == MdsRecord(e)
         IN /\ failed' = {}
            /\ cursor'.state = "open"
            /\ cursor'.cur_segment_id_ = rec.from_seg_id_
            /\ cursor'.cur_offset_ = rec.from_offset_
            /\ cursor'.cur_len_ = IF rec.to_seg_id_ # rec.from_seg_id_
                                    THEN segment_size_ - rec.from_offset_
                                    ELSE rec.to_off_ - rec.from_offset_]_vars
\* The length of the slice of record rec in segment dsid.
SliceLen(rec, dsid) ==
  (IF dsid = rec.to_seg_id_ THEN rec.to_off_ ELSE segment_size_)
    - (IF dsid = rec.from_seg_id_ THEN rec.from_offset_ ELSE 0)

\* The cursor is positioned on the slice of epoch e in segment dsid.
CursorAt(c, e, dsid) ==
  /\ c.state = "open"
  /\ c.current_epoch_ = e
  /\ c.cur_segment_id_ = dsid
  /\ c.cur_offset_ = (IF dsid = MdsRecord(e).from_seg_id_
                        THEN MdsRecord(e).from_offset_ ELSE 0)
  /\ c.cur_len_ = SliceLen(MdsRecord(e), dsid)

\* C11: nvwal_cursor_next on a cursor over durable epochs moves it to the
\* slice of its epoch in the next segment when the epoch continues there,
\* else to the first slice of the next epoch of the range, and leaves it
\* without a segment only after the last slice of end_epoch_.
C11_NextVisitsEverySlice ==
  [][(nvwal_cursor_next /\ cursor.end_epoch_ <= durable_epoch) =>
       LET e == cursor.current_epoch_
           rec == MdsRecord(e)
           dsid == cursor.cur_segment_id_
       IN IF dsid < rec.to_seg_id_ /\ SliceLen(rec, dsid + 1) > 0
            THEN CursorAt(cursor', e, dsid + 1)
          ELSE IF e < cursor.end_epoch_
            THEN CursorAt(cursor', e + 1, MdsRecord(e + 1).from_seg_id_)
          ELSE cursor'.cur_segment_id_ = kNvwalInvalidDsid]_vars

\* mds_read_one_epoch(wal, epoch_id, out): the iterator over
\* [epoch_id, epoch_id + 1) after mds_epoch_iterator_init; meta is *out.
mds_read_one_epoch(epoch_id) == mds_epoch_iterator_init(epoch_id, epoch_id + 1)

\* C12: a restart after a crash leaves the control block's durable_epoch_ as
\* it was, and mds_read_one_epoch of every epoch up to it returns the record
\* the metadata store held for that epoch before the restart.
C12_RestartKeepsRecords ==
  [][(Restart /\ fl.pc = "crashed") =>
       /\ cb'.durable_epoch_ = cb.durable_epoch_
       /\ \A e \in 1 .. cb.durable_epoch_ :
            /\ ~mds_read_one_epoch(e)'.hung
            /\ mds_read_one_epoch(e)'.meta = MdsRecord(e)
            /\ MdsRecord(e).epoch_id_ = e]_vars

RolledBack == rb.pc = "none" /\ cb.durable_epoch_ < durable_epoch

\* C14: after mds_rollback_to_epoch(e) and a restart, durable_epoch_ is e,
\* latest_epoch_ is at most e, and mds_read_one_epoch returns no record whose
\* epoch_id_ is after e.
C14_NothingAfterRollbackVisible ==
  [][(Restart /\ RolledBack) =>
       /\ cb'.durable_epoch_ = cb.durable_epoch_
       /\ durable_epoch' = cb.durable_epoch_
       /\ mds'.latest_epoch_ <= cb.durable_epoch_
       /\ \A e \in Epochs :
            \/ mds_read_one_epoch(e)'.hung
            \/ mds_read_one_epoch(e)'.meta.epoch_id_ <= cb.durable_epoch_]_vars

\* A stop has been requested on both threads.
StopRequested ==
  /\ fl.state \in {"stop_requested", "stopped"}
  /\ fs.state \in {"stop_requested", "stopped"}

\* C15: once a stop is requested on the flusher and on the fsyncer, both
\* threads eventually are in the stopped state.
C15_StopRequestLeadsToStopped ==
  StopRequested ~> (fl.state = "stopped" /\ fs.state = "stopped")

\* C16: when a segment sync has failed (nvwal_fsync_main holds its error
\* code), the fsyncer eventually is stopped and returns that error.
C16_SyncErrorStopsFsyncer ==
  (fs.error # "OK") ~> (fs.state = "stopped" /\ fs.error # "OK")

\* The position (dsid, offset) of the last byte of the range of record rec,
\* << >> when the range is empty.
LastPosition(rec) ==
  LET range == RangeFrom(rec, rec.from_seg_id_, rec.from_offset_)
  IN IF Len(range) = 0 THEN << >> ELSE range[Len(range)]

\* C17: when the last byte of a durable epoch is the last byte of segment d,
\* its record ends at (d, segment_size_), and the record of the next durable
\* epoch starts at (d + 1, 0).
C17_FullSegmentRecord ==
  \A e \in 1 .. durable_epoch :
    LET rec == MdsRecord(e)
        last == LastPosition(rec)
    IN (last # << >> /\ last[2] = segment_size_ - 1) =>
         /\ rec.to_seg_id_ = last[1]
         /\ rec.to_off_ = segment_size_
         /\ e + 1 <= durable_epoch =>
              /\ MdsRecord(e + 1).from_seg_id_ = last[1] + 1
              /\ MdsRecord(e + 1).from_offset_ = 0

\* No writer has appended a byte tagged e.
NoBytesTagged(e) == \A w \in WriterIds : TaggedBytes(w, e) = {}

\* C18: an epoch no writer tagged a byte with is concluded all the same:
\* once it is the stable epoch it becomes durable, and the record of every
\* such durable epoch has from == to.
C18_EmptyEpochIsConcluded ==
  /\ [](\A e \in 1 .. durable_epoch :
          NoBytesTagged(e) =>
            /\ MdsRecord(e).epoch_id_ = e
            /\ MdsRecord(e).from_seg_id_ = MdsRecord(e).to_seg_id_
            /\ MdsRecord(e).from_offset_ = MdsRecord(e).to_off_)
  /\ (stable_epoch = nvwal_increment_epoch(durable_epoch) /\ NoBytesTagged(stable_epoch))
       ~> (durable_epoch = stable_epoch)

\* C18 witness: an epoch without bytes is durable after an epoch with bytes.
C18_Witness ==
  \E e \in 2 .. durable_epoch :
    /\ NoBytesTagged(e)
    /\ ~NoBytesTagged(e - 1)
    /\ MdsRecord(e).from_offset_ > 0
    /\ MdsRecord(e).from_offset_ = MdsRecord(e).to_off_

\* The records an iterator yields from it on: epoch_metadata_ at each
\* position until mds_epoch_iterator_done.
RECURSIVE IteratorYield(_)
IteratorYield(it) ==
  IF it.hung \/ mds_epoch_iterator_done(it) THEN << >>
  ELSE << it.meta >> \o IteratorYield(mds_epoch_iterator_next(it))

Satisfying(um, user_metadata_id, predicate) ==
  {e \in 1 .. mds.latest_epoch_ :
     (IF user_metadata_id = 1 THEN um[e][2] ELSE um[e][1]) \in predicate}

\* Once an epoch satisfies the predicate, every later one does.
UpwardClosed(sat) ==
  \A a \in sat : \A b \in 1 .. mds.latest_epoch_ : a <= b => b \in sat

\* Once an epoch satisfies the predicate, every earlier one does.
DownwardClosed(sat) ==
  \A a \in sat : \A b \in 1 .. mds.latest_epoch_ : b <= a => b \in sat

\* The value *out holds before a search.
OutBefore == [NoMeta EXCEPT !.epoch_id_ = MaxEpoch + 1]

\* The search result r is the record of epoch e when sat is not empty, and
\* a non-zero code with *out untouched when it is.
FoundOrUntouched(r, sat, e) ==
  /\ ~r.hung
  /\ IF sat = {} THEN r.ret # 0 /\ r.out = OutBefore
     ELSE r.ret = 0 /\ r.out = MdsRecord(e) /\ r.out.epoch_id_ = e

LowestOf(sat) == CHOOSE e \in sat : \A f \in sat : e <= f
HighestOf(sat) == CHOOSE e \in sat : \A f \in sat : e >= f

\* C20 (as stated): for every predicate monotone over the epochs of
\* [1, latest_epoch_], in either direction, the lower bound search returns
\* the record of the lowest satisfying epoch and the upper bound search the
\* record of the highest one, and each returns non-zero with *out
\* untouched when none satisfies.
C20_BoundsForMonotone ==
  \A um \in UserMetadataMaps : \A user_metadata_id \in 0 .. 2 :
    \A predicate \in SUBSET (0 .. MaxUserMetadata) :
      LET sat == Satisfying(um, user_metadata_id, predicate)
      IN (UpwardClosed(sat) \/ DownwardClosed(sat)) =>
           /\ FoundOrUntouched(
                mds_find_metadata_lower_bound(um, user_metadata_id, predicate, OutBefore),
                sat, LowestOf(sat))
           /\ FoundOrUntouched(
                mds_find_metadata_upper_bound(um, user_metadata_id, predicate, OutBefore),
                sat, HighestOf(sat))

\* C20 (amended): outside mds_rollback_to_epoch, the lower bound search
\* returns the record of the lowest satisfying epoch for every predicate
\* that stays true once true, the upper bound search the record of the
\* highest satisfying epoch for every predicate that stays false once
\* false, and each returns non-zero with *out untouched when no epoch of
\* [1, latest_epoch_] satisfies.
C20_BoundsByDirection ==
  rb.pc = "none" =>
  \A um \in UserMetadataMaps : \A user_metadata_id \in 0 .. 2 :
    \A predicate \in SUBSET (0 .. MaxUserMetadata) :
      LET sat == Satisfying(um, user_metadata_id, predicate)
      IN /\ UpwardClosed(sat) =>
              FoundOrUntouched(
                mds_find_metadata_lower_bound(um, user_metadata_id, predicate, OutBefore),
                sat, LowestOf(sat))
         /\ DownwardClosed(sat) =>
              FoundOrUntouched(
                mds_find_metadata_upper_bound(um, user_metadata_id, predicate, OutBefore),
                sat, HighestOf(sat))

\* C20 witness: three epochs are recorded, one page of them in the page
\* file, and the lower bound search finds epoch 2 for a predicate that
\* epoch 1 fails and epochs 2 and 3 satisfy.
C20_Witness ==
  /\ mds.latest_epoch_ = 3
  /\ Len(pagefile.pages) = 1
  /\ rb.pc = "none"
  /\ LET um == [e \in 0 .. MaxEpoch |-> IF e >= 2 THEN <<1, 0>> ELSE <<0, 0>>]
     IN mds_find_metadata_lower_bound(um, 0, {1}, OutBefore)
          = [ret |-> 0, out |-> MdsRecord(2), hung |-> FALSE]

Syncing == fs.pc \in {"write", "complete"}

\* The flusher is resetting slot for its next dsid.
Recycling(slot) ==
  /\ fl.pc \in {"rot_reset", "rot_unpin"}
  /\ slot = flusher_get_segment_from_dsid(fl.cur_dsid + 1)

\* The slot of the flusher's current segment, unless the flusher has handed
\* it over and is moving onto the next one.
FlusherWrites(slot) ==
  /\ slot = flusher_get_cur_segment
  /\ fl.pc \notin {"rot_wait", "rot_pin", "rot_reset", "rot_unpin"}

\* C22: while the fsyncer syncs a slot, the slot holds a segment the flusher
\* has filled to segment_size_ and handed over with fsync_requested_, and
\* the flusher neither writes that slot nor is recycling it.
C22_SyncedSlotIsHandedOver ==
  Syncing =>
    /\ segments[fs.cur_segment].fsync_requested_ = 1
    /\ segments[fs.cur_segment].written_bytes_ = segment_size_
    /\ ~FlusherWrites(fs.cur_segment)
    /\ ~Recycling(fs.cur_segment)

\* C26: fsyncer_sync_one_segment_to_disk is entered only on a slot whose
\* fsync_completed_ is clear, so a filled segment is synced once.
C26_SyncEnteredOncePerFill ==
  [][(fs.pc = "scan" /\ fs'.pc = "write")
       => segments[fs.cur_segment].fsync_completed_ = 0]_vars

\* C23: a slot takes a new dsid_ only while nv_reader_pins_ is -1, before
\* and after the reset; nv_reader_pins_ becomes -1 only from 0, and goes
\* back to 0 only on a slot that has been reset for the flusher's next dsid.
C23_RecycleUnderPin ==
  [][\A slot \in SlotIds :
       /\ segments'[slot].dsid_ # segments[slot].dsid_ =>
            /\ segments[slot].nv_reader_pins_ = -1
            /\ segments'[slot].nv_reader_pins_ = -1
            /\ segments'[slot].written_bytes_ = 0
            /\ segments'[slot].fsync_requested_ = 0
            /\ segments'[slot].fsync_completed_ = 0
       /\ (segments'[slot].nv_reader_pins_ = -1 /\ segments[slot].nv_reader_pins_ # -1) =>
            segments[slot].nv_reader_pins_ = 0
       /\ (segments[slot].nv_reader_pins_ = -1 /\ segments'[slot].nv_reader_pins_ # -1) =>
            /\ segments'[slot].nv_reader_pins_ = 0
            /\ segments[slot].dsid_ = fl.cur_dsid + 1
            /\ segments[slot].written_bytes_ = 0
            /\ fl'.cur_dsid = segments[slot].dsid_]_vars

\* C23 witness: slot 0 has been reset for the dsid after the last slot's
\* and still carries the flusher's pin.
C23_Witness ==
  /\ fl.pc = "rot_unpin"
  /\ segments[0].dsid_ = segment_count_ + 1
  /\ segments[0].nv_reader_pins_ = -1

\* C24: no NV segment holds more than segment_size_ bytes.
C24_SegmentNeverOverrun ==
  \A slot \in SlotIds :
    /\ segments[slot].written_bytes_ >= 0
    /\ segments[slot].written_bytes_ <= segment_size_

\* C25: every segment up to last_synced_dsid_ has its disk file written
\* and synced.
C25_SyncedPrefixOnDisk ==
  \A dsid \in 1 .. cb.last_synced_dsid_ : OnDisk(dsid)

\* The second half of C25: last_synced_dsid_ never decreases.
LastSyncedNeverDecreases ==
  [][cb'.last_synced_dsid_ >= cb.last_synced_dsid_]_vars

\* C27: once epoch e is durable no frame of any writer carries log_epoch_ e
\* or an earlier epoch: the frames of e have been zeroed.
C27_NoFrameOfDurableEpoch ==
  \A w \in WriterIds : \A f \in FrameIds :
    InUse(w, f) => nvwal_is_epoch_after(frames[w][f].log_epoch_, durable_epoch)

\* The page numbers a caller may pass to mds_bufmgr_alloc_page.
PageNos == 0 .. (epoch_id_to_page_no(MaxEpoch) + 1)

\* C28: mds_bufmgr_alloc_page returns EINVAL for page 0; an empty buffer
\* adopts the page and becomes dirty; the buffered page is returned as it
\* is; the next page recycles a clean buffer and gets ENOBUFS from a dirty
\* one, which is left unchanged; and mds_write_epoch makes no other request.
C28_AllocPagePolicy ==
  /\ \A page_no \in PageNos :
       LET buffer == mds.buffer
           r == AllocPageResult(buffer, page_no)
       IN /\ page_no = kNvwalInvalidPage => r.ret = "EINVAL" /\ r.buffer = buffer
          /\ (page_no # kNvwalInvalidPage /\ buffer.page_no_ = 0) =>
               /\ r.ret = "OK" /\ r.bufferp
               /\ r.buffer = [buffer EXCEPT !.page_no_ = page_no, !.dirty_ = 1]
          /\ (page_no # kNvwalInvalidPage /\ page_no = buffer.page_no_) =>
               /\ r.ret = "OK" /\ r.bufferp
               /\ r.buffer.page_no_ = buffer.page_no_
               /\ r.buffer.page = buffer.page
          /\ (buffer.page_no_ # 0 /\ page_no = buffer.page_no_ + 1 /\ buffer.dirty_ = 0) =>
               /\ r.ret = "OK" /\ r.bufferp
               /\ r.buffer = [buffer EXCEPT !.page_no_ = page_no, !.dirty_ = 1]
          /\ (buffer.page_no_ # 0 /\ page_no = buffer.page_no_ + 1 /\ buffer.dirty_ # 0) =>
               r.ret = "ENOBUFS" /\ r.buffer = buffer
  /\ "alloc_page:this shouldn't happen" \notin failed
  /\ fl.pc \in {"mds_alloc", "mds_paged"} =>
       LET page_no == epoch_id_to_page_no(fl.new_meta.epoch_id_)
       IN /\ page_no # kNvwalInvalidPage
          /\ mds.buffer.page_no_ = 0 \/ page_no \in {mds.buffer.page_no_, mds.buffer.page_no_ + 1}

\* C28 witness: mds_write_epoch got ENOBUFS for the first epoch of page 2
\* from the dirty buffer of page 1, which is unchanged.
C28_Witness ==
  /\ fl.pc = "mds_writeback"
  /\ mds.buffer.page_no_ = 1
  /\ mds.buffer.dirty_ = 1
  /\ epoch_id_to_page_no(fl.new_meta.epoch_id_) = 2

\* C29: when mds_write_epoch advances paged_mds_epoch_, the buffered page p
\* is already the last page of the page file and clean, paged_mds_epoch_
\* becomes the durable epoch, which is the last epoch of page p, and the
\* retried allocation succeeds: the buffer takes page p + 1 and the record
\* goes to its offset 0.  Steps of a crash are not steps of mds_write_epoch.
C29_PageOutBeforePagedEpoch ==
  [][/\ (fl.pc = "mds_paged" /\ fl'.pc \notin {"mds_paged", "crashed"}) =>
          LET p == mds.buffer.page_no_
          IN /\ p >= 1
             /\ mds.buffer.dirty_ = 0
             /\ Len(pagefile.pages) = p
             /\ pagefile.pages[p] = mds.buffer.page
             /\ cb'.paged_mds_epoch_ = cb.durable_epoch_
             /\ cb.durable_epoch_ = max_epochs_per_page * p
             /\ fl.new_meta.epoch_id_ = cb.durable_epoch_ + 1
             /\ fl'.pc = "mds_record" /\ fl'.bufferp
             /\ mds'.buffer.page_no_ = p + 1
             /\ epoch_id_to_page_offset(fl.new_meta.epoch_id_) = 0
     /\ (fl.pc = "mds_record" /\ fl'.pc \notin {"mds_record", "crashed"}) =>
          /\ mds'.buffer.page_no_ = epoch_id_to_page_no(fl.new_meta.epoch_id_)
          /\ mds'.buffer.page[epoch_id_to_page_offset(fl.new_meta.epoch_id_)] = fl.new_meta
          /\ cb'.paged_mds_epoch_ = cb.paged_mds_epoch_]_vars

\* C29 witness: the first epoch of page 2 has been written after page 1 was
\* paged out.
C29_Witness ==
  /\ fl.pc = "mds_de"
  /\ cb.paged_mds_epoch_ = max_epochs_per_page
  /\ Len(pagefile.pages) = 1
  /\ mds.buffer.page_no_ = 2
  /\ mds.buffer.page[0] = fl.new_meta
  /\ fl.new_meta.epoch_id_ = max_epochs_per_page + 1

\* C30: a restart that finds durable_epoch_ < paged_mds_epoch_ completes the
\* rollback: mds_recover returns with paged_mds_epoch_ <= durable_epoch_,
\* the page file holding exactly the pages before the page of
\* durable_epoch_, and latest_epoch_ = durable_epoch_.
C30_RestartCompletesRollback ==
  [][(Restart /\ cb.durable_epoch_ < cb.paged_mds_epoch_) =>
       /\ fl'.pc = "restarted"
       /\ cb'.durable_epoch_ = cb.durable_epoch_
       /\ cb'.paged_mds_epoch_ <= cb'.durable_epoch_
       /\ Len(pagefile'.pages) = epoch_id_to_page_no(cb.durable_epoch_) - 1
       /\ pagefile'.pages = SubSeq(pagefile.pages, 1, Len(pagefile'.pages))
       /\ mds'.latest_epoch_ = cb.durable_epoch_]_vars

\* C31: a metadata read of a durable epoch that runs concurrently with
\* mds_write_epoch returns the record of that epoch, whole: what the reader
\* thread's iterator yields for epoch cur is the record the store holds for
\* cur.
C31_ConcurrentReadYieldsRecord ==
  reader.pc = "yield" => reader.meta = MdsRecord(reader.cur)

\* C32: a cursor_open_segment(dsid) that succeeds serves the segment from
\* its NV ring slot exactly when dsid > last_synced_dsid_, and from the
\* opened and mapped disk file exactly when dsid <= last_synced_dsid_.
C32_OpenSegmentBySyncedDsid ==
  [][(cursor.state = "closed" /\ cursor'.cur_segment_id_ # kNvwalInvalidDsid)
       => /\ cursor'.cur_segment_from_nv_segment_ = 1
               <=> cursor'.cur_segment_id_ > cb.last_synced_dsid_
          /\ cursor'.cur_segment_disk_fd_ # 0
               <=> cursor'.cur_segment_id_ <= cb.last_synced_dsid_]_vars

\* C33: the error of a failed segment sync stays in the slot's fsync_error_
\* until the flusher has read it and returned it: no step clears a recorded
\* error before the flusher is stopped with that error.
C33_SyncErrorStaysUntilRead ==
  [][\A slot \in SlotIds :
       (segments[slot].fsync_error_ # "OK" /\ segments'[slot].fsync_error_ = "OK")
         => (fl.state = "stopped" /\ fl.error = segments[slot].fsync_error_)]_vars

\* The flusher is inside flusher_move_onto_next_nv_segment.
InRotation == fl.pc \in {"rot_wait", "rot_pin", "rot_reset", "rot_unpin"}

C35_RecordsTile ==
  \A e \in 1 .. (cb.durable_epoch_ - 1) :
    /\ MdsRecord(e + 1).from_seg_id_ = MdsRecord(e).to_seg_id_
    /\ MdsRecord(e + 1).from_offset_ = MdsRecord(e).to_off_

\* C35 witness: three durable epochs with bytes in the first two, the
\* second of them reaching into the next segment.
C35_Witness ==
  /\ cb.durable_epoch_ = 3
  /\ MdsRecord(1).to_off_ > 0
  /\ MdsRecord(2).to_seg_id_ > MdsRecord(2).from_seg_id_
  /\ MdsRecord(3).epoch_id_ = 3

\* C36: the volatile durable_epoch_ that nvwal_query_durable_epoch returns
\* is equal to or before the durable_epoch_ of the control block, also after
\* mds_rollback_to_epoch.
C36_VolatileNotAfterPersisted ==
  nvwal_is_epoch_equal_or_after(cb.durable_epoch_, durable_epoch)

\* The dsids that slot has held and the flusher has since replaced.
RecycledFrom(slot) ==
  {d \in 1 .. (segments[slot].dsid_ - 1) : flusher_get_segment_from_dsid(d) = slot}

\* C37: whenever the flusher has recycled the ring slot that held dsid d,
\* last_synced_dsid_ >= d.
C37_RecycledIsSynced ==
  \A slot \in SlotIds : \A d \in RecycledFrom(slot) : cb.last_synced_dsid_ >= d

\* C38: every frame index flusher_copy_one_writer_to_nv uses,
\* oldest_frame_ + lower_bound_f, lies in 0 .. kNvwalEpochFrameCount - 1.
C38_FrameIndexInRange == "copy:frame_index_out_of_range" \notin failed

\* C39: after any sequence of mds_write_epoch and mds_writeback calls the
\* page at position p of the page file is page p (it holds no record of
\* another page, so no page is in the file twice), and the read of a
\* paged-out epoch at its computed position returns the record of that epoch.
C39_PageAtItsOffset ==
  /\ \A p \in 1 .. Len(pagefile.pages) : \A off \in 0 .. (EpochsPerPage - 1) :
       pagefile.pages[p][off].epoch_id_ \in {0, max_epochs_per_page * (p - 1) + off + 1}
  /\ \A e \in 1 .. cb.paged_mds_epoch_ :
       e <= cb.durable_epoch_ => FileRecord(e).epoch_id_ = e

\* C40: when mds_write_epoch(record) has returned 0, latest_epoch_ equals
\* record.epoch_id_ and the durable_epoch_ of the control block, whatever
\* epoch the store started from.
C40_LatestIsWrittenEpoch ==
  fl.pc = "publish" =>
    /\ mds.latest_epoch_ = fl.new_meta.epoch_id_
    /\ mds.latest_epoch_ = cb.durable_epoch_

====
